---- MODULE Spec2Model ----
(***************************************************************************)
(* Credit-risk underwriting tools (src/src/backend/app/tools.py).          *)
(*                                                                         *)
(* The tools are Python functions over float and int arguments.  A Python  *)
(* float is an IEEE-754 binary64 number, and every arithmetic operation of *)
(* the tools (+, -, *, /) is correctly rounded to 53 significant bits,     *)
(* ties to even.  The thresholds of the tools are compared against the     *)
(* rounded values, so the model computes with the same numbers: a double   *)
(* is the record [sgn, man, exp] standing for sgn * man * 2^exp, where man *)
(* is an arbitrary-precision natural number (a little-endian sequence of   *)
(* 15-bit limbs) that is odd, or zero.  Infinities, NaN and subnormals are *)
(* outside the magnitudes the model draws its inputs from.                 *)
(***************************************************************************)
EXTENDS Integers, Sequences, FiniteSets, TLC

---------------------------------------------------------------------------
(* Arbitrary-precision naturals: <<>> is 0, limbs are in 0..2^15-1, the    *)
(* last limb is not 0.                                                     *)

RECURSIVE Pow2(_)
Pow2(k) == IF k = 0 THEN 1 ELSE 2 * Pow2(k - 1)

Limb == Pow2(15)

RECURSIVE BNorm(_)
BNorm(a) ==
    IF a = <<>> THEN a
    ELSE IF a[Len(a)] = 0 THEN BNorm(SubSeq(a, 1, Len(a) - 1))
    ELSE a

RECURSIVE BFromInt(_)
BFromInt(n) == IF n = 0 THEN <<>> ELSE <<n % Limb>> \o BFromInt(n \div Limb)

RECURSIVE BToInt(_)
BToInt(a) == IF a = <<>> THEN 0 ELSE a[1] + Limb * BToInt(Tail(a))

BHead(a) == IF a = <<>> THEN 0 ELSE a[1]

BTail(a) == IF a = <<>> THEN a ELSE Tail(a)

RECURSIVE BAddC(_, _, _)
BAddC(a, b, c) ==
    IF a = <<>> /\ b = <<>> THEN (IF c = 0 THEN <<>> ELSE <<c>>)
    ELSE LET x == BHead(a) + BHead(b) + c
         IN  <<x % Limb>> \o BAddC(BTail(a), BTail(b), x \div Limb)

BAdd(a, b) == BAddC(a, b, 0)

\* a - b - c for a >= b + c; the borrow c is 0 or 1
RECURSIVE BSubC(_, _, _)
BSubC(a, b, c) ==
    IF a = <<>> THEN <<>>
    ELSE LET x == a[1] - BHead(b) - c
         IN  IF x < 0 THEN <<x + Limb>> \o BSubC(Tail(a), BTail(b), 1)
             ELSE <<x>> \o BSubC(Tail(a), BTail(b), 0)

BSub(a, b) == BNorm(BSubC(a, b, 0))

\* -1, 0, 1 as a < b, a = b, a > b
RECURSIVE BCmp(_, _)
BCmp(a, b) ==
    IF Len(a) # Len(b) THEN (IF Len(a) < Len(b) THEN -1 ELSE 1)
    ELSE IF a = <<>> THEN 0
    ELSE IF a[Len(a)] # b[Len(b)] THEN (IF a[Len(a)] < b[Len(b)] THEN -1 ELSE 1)
    ELSE BCmp(SubSeq(a, 1, Len(a) - 1), SubSeq(b, 1, Len(b) - 1))

\* a * d + c for one limb d and a carry c below 2^15
RECURSIVE BMulSmall(_, _, _)
BMulSmall(a, d, c) ==
    IF a = <<>> THEN (IF c = 0 THEN <<>> ELSE <<c>>)
    ELSE LET x == a[1] * d + c
         IN  <<x % Limb>> \o BMulSmall(Tail(a), d, x \div Limb)

RECURSIVE BMul(_, _)
BMul(a, b) ==
    IF a = <<>> \/ b = <<>> THEN <<>>
    ELSE LET rest == BMul(a, Tail(b))
         IN  BAdd(BNorm(BMulSmall(a, b[1], 0)),
                  IF rest = <<>> THEN rest ELSE <<0>> \o rest)

\* quotient and remainder of a by one limb d > 0, from the top limb down
RECURSIVE BDivSmallR(_, _, _, _)
BDivSmallR(a, d, i, r) ==
    IF i = 0 THEN [q |-> <<>>, r |-> r]
    ELSE LET x    == r * Limb + a[i]
             rest == BDivSmallR(a, d, i - 1, x % d)
         IN  [q |-> Append(rest.q, x \div d), r |-> rest.r]

BDivSmall(a, d) ==
    LET x == BDivSmallR(a, d, Len(a), 0) IN [q |-> BNorm(x.q), r |-> x.r]

RECURSIVE IntBitLen(_)
IntBitLen(n) == IF n = 0 THEN 0 ELSE 1 + IntBitLen(n \div 2)

BitLen(a) == IF a = <<>> THEN 0 ELSE 15 * (Len(a) - 1) + IntBitLen(a[Len(a)])

BBit(a, i) ==
    IF i \div 15 + 1 > Len(a) THEN 0
    ELSE (a[i \div 15 + 1] \div Pow2(i % 15)) % 2

RECURSIVE BZeros(_)
BZeros(k) == IF k = 0 THEN <<>> ELSE <<0>> \o BZeros(k - 1)

BShl(a, k) ==
    IF a = <<>> THEN a
    ELSE BZeros(k \div 15) \o BNorm(BMulSmall(a, Pow2(k % 15), 0))

\* floor(a / 2^k)
BShr(a, k) ==
    IF k \div 15 >= Len(a) THEN <<>>
    ELSE BDivSmall(SubSeq(a, k \div 15 + 1, Len(a)), Pow2(k % 15)).q

\* a mod 2^k # 0
BLowBits(a, k) ==
    \/ \E i \in 1..Len(a) : i <= k \div 15 /\ a[i] # 0
    \/ /\ k \div 15 < Len(a)
       /\ a[k \div 15 + 1] % Pow2(k % 15) # 0

\* the largest limb d with b * d <= r, for lo <= d < hi, by bisection
RECURSIVE BDigit(_, _, _, _)
BDigit(r, b, lo, hi) ==
    IF hi - lo = 1 THEN lo
    ELSE LET mid == (lo + hi) \div 2
         IN  IF BCmp(BMulSmall(b, mid, 0), r) <= 0 THEN BDigit(r, b, mid, hi)
             ELSE BDigit(r, b, lo, mid)

\* quotient and remainder of a by b > 0, limb by limb from the top limb down
RECURSIVE BDivLongR(_, _, _, _)
BDivLongR(a, b, i, r) ==
    IF i = 0 THEN [q |-> <<>>, r |-> r]
    ELSE LET r2   == BNorm(<<a[i]>> \o r)
             d    == BDigit(r2, b, 0, Limb)
             r3   == IF d = 0 THEN r2 ELSE BSub(r2, BMulSmall(b, d, 0))
             rest == BDivLongR(a, b, i - 1, r3)
         IN  [q |-> Append(rest.q, d), r |-> rest.r]

BDivMod(a, b) ==
    IF Len(b) = 1
    THEN LET x == BDivSmall(a, b[1]) IN [q |-> x.q, r |-> BFromInt(x.r)]
    ELSE LET x == BDivLongR(a, b, Len(a), <<>>) IN [q |-> BNorm(x.q), r |-> x.r]

RECURSIVE IntTrailingZeros(_)
IntTrailingZeros(n) == IF n % 2 = 1 THEN 0 ELSE 1 + IntTrailingZeros(n \div 2)

RECURSIVE BTrailingZeros(_)
BTrailingZeros(a) ==
    IF a[1] = 0 THEN 15 + BTrailingZeros(Tail(a)) ELSE IntTrailingZeros(a[1])

---------------------------------------------------------------------------
(* binary64 values and the correctly rounded operations on them            *)

FZero == [sgn |-> 1, man |-> <<>>, exp |-> 0]

\* the double sgn * m * 2^e for an m of at most 53 bits, in canonical form
FCanonAt(sgn, m, e, z) == [sgn |-> sgn, man |-> BShr(m, z), exp |-> e + z]

FCanon(sgn, m, e) ==
    IF m = <<>> THEN FZero ELSE FCanonAt(sgn, m, e, BTrailingZeros(m))

\* the double nearest to sgn * (m + f) * 2^e, where 0 < f < 1 iff sticky,
\* ties to even
FRoundQ(sgn, q, e, half, rest) ==
    FCanon(sgn, IF half /\ (rest \/ BBit(q, 0) = 1) THEN BAddC(q, <<>>, 1) ELSE q, e)

\* d is the number of bits of m beyond 53
FRoundAt(sgn, m, e, sticky, d) ==
    IF d <= 0 THEN FCanon(sgn, m, e)
    ELSE FRoundQ(sgn, BShr(m, d), e + d, BBit(m, d - 1) = 1, sticky \/ BLowBits(m, d - 1))

FRound(sgn, m, e, sticky) == FRoundAt(sgn, m, e, sticky, BitLen(m) - 53)

FFromInt(n) ==
    IF n < 0 THEN FCanon(-1, BFromInt(-n), 0) ELSE FCanon(1, BFromInt(n), 0)

FNeg(x) == IF x.man = <<>> THEN x ELSE [x EXCEPT !.sgn = -x.sgn]

Min(a, b) == IF a <= b THEN a ELSE b

\* tx and ty are the exponents of the leading bits, e the smaller exponent
FCmpTop(x, y, tx, ty, e) ==
    IF tx # ty THEN (IF tx < ty THEN -1 ELSE 1)
    ELSE BCmp(BShl(x.man, x.exp - e), BShl(y.man, y.exp - e))

\* -1, 0, 1 as |x| < |y|, |x| = |y|, |x| > |y|
FCmpAbs(x, y) ==
    IF x.man = <<>> \/ y.man = <<>>
    THEN (IF x.man = y.man THEN 0 ELSE IF x.man = <<>> THEN -1 ELSE 1)
    ELSE FCmpTop(x, y, x.exp + BitLen(x.man), y.exp + BitLen(y.man), Min(x.exp, y.exp))

\* -1, 0, 1 as x < y, x = y, x > y
FCmp(x, y) ==
    IF x.sgn # y.sgn THEN (IF x.sgn < y.sgn THEN -1 ELSE 1)
    ELSE x.sgn * FCmpAbs(x, y)

FLt(x, y) == FCmp(x, y) < 0
FLe(x, y) == FCmp(x, y) <= 0
FGt(x, y) == FCmp(x, y) > 0
FGe(x, y) == FCmp(x, y) >= 0

\* a and b are the mantissas at the common exponent e, c compares them
FAddOpposite(x, y, e, a, b, c) ==
    IF c = 0 THEN FZero
    ELSE IF c > 0 THEN FRound(x.sgn, BSub(a, b), e, FALSE)
    ELSE FRound(y.sgn, BSub(b, a), e, FALSE)

FAddAligned(x, y, e, a, b) ==
    IF x.sgn = y.sgn THEN FRound(x.sgn, BAdd(a, b), e, FALSE)
    ELSE FAddOpposite(x, y, e, a, b, BCmp(a, b))

FAddAt(x, y, e) == FAddAligned(x, y, e, BShl(x.man, x.exp - e), BShl(y.man, y.exp - e))

FAdd(x, y) ==
    IF x.man = <<>> THEN y
    ELSE IF y.man = <<>> THEN x
    ELSE FAddAt(x, y, Min(x.exp, y.exp))

FSub(x, y) == FAdd(x, FNeg(y))

FMul(x, y) ==
    IF x.man = <<>> \/ y.man = <<>> THEN FZero
    ELSE FRound(x.sgn * y.sgn, BMul(x.man, y.man), x.exp + y.exp, FALSE)

\* d is the quotient and remainder of the mantissas, x's shifted by k bits
FDivRound(x, y, k, d) == FRound(x.sgn * y.sgn, d.q, x.exp - y.exp - k, d.r # <<>>)

\* the bits x's mantissa is shifted by, so that the quotient has 55 at least
FDivShift(need) == IF need > 0 THEN need ELSE 0

FDivAt(x, y, k) == FDivRound(x, y, k, BDivMod(BShl(x.man, k), y.man))

\* x / y for y # 0: the quotient of the mantissas to at least 55 bits, and
\* whether anything is left below it
FDiv(x, y) ==
    IF x.man = <<>> THEN FZero
    ELSE FDivAt(x, y, FDivShift(55 + BitLen(y.man) - BitLen(x.man)))

\* x ** n for a float x > 0 and an int n >= 1.  Python passes both to the C
\* library's pow, which is accurate to less than one unit in the last place
\* and not correctly rounded: it returns the power itself when that is a
\* double, and otherwise one of the two doubles around it; which of the two
\* depends on the library and on the processor.  The power is computed on
\* mantissas cut down to 150 bits after every product, which loses less
\* than 2 units of the last kept bit per unit of n; when the value so
\* bracketed lies between the same two doubles, those are the outcomes,
\* otherwise the exact power decides.  For n up to 1024.
PTrunc(m, e, exact) ==
    LET d == BitLen(m) - 150
    IN  IF d <= 0 THEN [man |-> m, exp |-> e, exact |-> exact]
        ELSE [man |-> BShr(m, d), exp |-> e + d, exact |-> exact /\ ~BLowBits(m, d)]

PMul(p, q) == PTrunc(BMul(p.man, q.man), p.exp + q.exp, p.exact /\ q.exact)

PSquare(p) == PMul(p, p)

\* by squaring; each intermediate power is a value before it is multiplied
RECURSIVE PPow(_, _)
PPow(x, n) ==
    IF n = 1 THEN [man |-> x.man, exp |-> x.exp, exact |-> TRUE]
    ELSE IF n % 2 = 1
    THEN CHOOSE r \in {PMul(p, [man |-> x.man, exp |-> x.exp, exact |-> TRUE]) :
                           p \in {PPow(x, n - 1)}} : TRUE
    ELSE CHOOSE r \in {PSquare(p) : p \in {PPow(x, n \div 2)}} : TRUE

RECURSIVE BPow(_, _)
BPow(a, n) == IF n = 0 THEN <<1>> ELSE BMul(a, BPow(a, n - 1))

\* the largest double that is at most m * 2^e, for m > 0
FFloorAt(m, e, d) ==
    IF d <= 0 THEN FCanon(1, m, e) ELSE FCanon(1, BShr(m, d), e + d)

FFloor(m, e) == FFloorAt(m, e, BitLen(m) - 53)

\* the double that follows the positive double f
FNextUpAt(f, s) == FCanon(1, BAddC(BShl(f.man, s), <<>>, 1), f.exp - s)

FNextUp(f) == FNextUpAt(f, 53 - BitLen(f.man))

\* m * 2^e is a double
IsDouble(m) == BitLen(m) - BTrailingZeros(m) <= 53

\* what pow can return for a power strictly between f and the next double
FPowAround(f) == {f, FNextUp(f)}

\* what pow can return for the power m * 2^e
FPowBracket(m, e) ==
    IF IsDouble(m) THEN {FCanon(1, m, e)} ELSE FPowAround(FFloor(m, e))

\* lo and hi are the doubles below the two ends of the bracket of x ** n
FPowBetween(lo, hi, x, n) ==
    IF lo = hi THEN FPowAround(lo) ELSE FPowBracket(BPow(x.man, n), n * x.exp)

FPowOf(p, x, n) ==
    IF p.exact THEN FPowBracket(p.man, p.exp)
    ELSE FPowBetween(FFloor(p.man, p.exp),
                     FFloor(BAdd(p.man, BFromInt(Pow2(12))), p.exp), x, n)

\* the doubles the C library's pow can return for x ** n
FPowOutcomes(x, n) == FPowOf(PPow(x, n), x, n)

\* the C library's pow of the machine the program runs on, on the pairs
\* <<x, n>> the program calls it with: a function, the same for every call
VARIABLE pow

\* the pow functions on the set D of pairs <<x, n>>
Libms(D) ==
    {f \in [D -> UNION {FPowOutcomes(d[1], d[2]) : d \in D}] :
        \A d \in D : f[d] \in FPowOutcomes(d[1], d[2])}

\* no call of pow is made
NoPow == [d \in {} |-> FZero]

FPow(x, n) == pow[<<x, n>>]

RECURSIVE BPow10(_)
BPow10(k) == IF k = 0 THEN <<1>> ELSE BNorm(BMulSmall(BPow10(k - 1), 10, 0))

\* the double the literal "m e-k" denotes (float("1e-12") is Sci(1, 12)),
\* for k up to 22
Sci(m, k) == FDiv(FFromInt(m), FRound(1, BPow10(k), 0, FALSE))

\* Python's max(a, b) and min(a, b): the first argument unless the second
\* is strictly larger (smaller)
FMax(a, b) == IF FGt(b, a) THEN b ELSE a
FMin(a, b) == IF FLt(b, a) THEN b ELSE a

\* the double a decimal literal n/d denotes (float("34.99") is F(3499, 100))
F(n, d) == FDiv(FFromInt(n), FFromInt(d))

RECURSIVE Pow10(_)
Pow10(k) == IF k = 0 THEN 1 ELSE 10 * Pow10(k - 1)

\* Python's round(x, nd): the exact value of x rounded to nd decimals, ties
\* to even.  The result is the integer number of 10^-nd units; the float
\* Python returns is the double nearest to it, F(result, 10^nd).
PyRound(x, nd) ==
    IF x.man = <<>> THEN 0
    ELSE LET n == BMulSmall(x.man, Pow10(nd), 0)
         IN  IF x.exp >= 0 THEN x.sgn * BToInt(BShl(n, x.exp))
             ELSE LET d    == -x.exp
                      q    == BToInt(BShr(n, d))
                      half == BBit(n, d - 1) = 1
                      rest == BLowBits(n, d - 1)
                      up   == half /\ (rest \/ q % 2 = 1)
                  IN  x.sgn * (IF up THEN q + 1 ELSE q)

---------------------------------------------------------------------------
(* The tools.  A float argument is drawn as a decimal with two places and  *)
(* recorded in hundredths: 3499 stands for the Python literal 34.99, the   *)
(* double Dec(3499).  An int argument is recorded as it is.  A returned    *)
(* dict is a record; a field the tool rounds with round(x, nd) holds the   *)
(* rounded value in units of 10^-nd (percentage 3500 is 35.0, ratio 3500   *)
(* is 0.35).  An argument with a default that the caller omits is absent   *)
(* from the argument record.                                               *)

Dec(h) == F(h, 100)

IsZero(x) == x.man = <<>>

\* what a call leaves when "/" raises instead of returning
ZeroDivisionError == [exception |-> "ZeroDivisionError"]

\* tools.py 60-65
DtiRiskCategory(percentage) ==
    IF FLt(percentage, FFromInt(35)) THEN "LOW"
    ELSE IF FLe(percentage, FFromInt(50)) THEN "MEDIUM"
    ELSE "HIGH"

compute_debt_to_income_ratio(monthly_income, total_monthly_debt) ==
    IF FLe(monthly_income, FZero)
    THEN [error |-> "Monthly income must be greater than zero"]
    ELSE IF FLt(total_monthly_debt, FZero)
    THEN [error |-> "Total monthly debt cannot be negative"]
    ELSE IF IsZero(monthly_income) THEN ZeroDivisionError
    ELSE LET ratio      == FDiv(total_monthly_debt, monthly_income)
             percentage == FMul(ratio, FFromInt(100))
         IN  [ratio         |-> PyRound(ratio, 4),
              percentage    |-> PyRound(percentage, 2),
              risk_category |-> DtiRiskCategory(percentage)]

\* tools.py 109-114
LtvRiskCategory(percentage) ==
    IF FLt(percentage, FFromInt(80)) THEN "LOW"
    ELSE IF FLe(percentage, FFromInt(90)) THEN "MEDIUM"
    ELSE "HIGH"

compute_loan_to_value_ratio(loan_amount, property_value) ==
    IF FLe(property_value, FZero)
    THEN [error |-> "Property value must be greater than zero"]
    ELSE IF FLt(loan_amount, FZero)
    THEN [error |-> "Loan amount cannot be negative"]
    ELSE IF IsZero(property_value) THEN ZeroDivisionError
    ELSE LET ratio      == FDiv(loan_amount, property_value)
             percentage == FMul(ratio, FFromInt(100))
         IN  [ratio         |-> PyRound(ratio, 4),
              percentage    |-> PyRound(percentage, 2),
              risk_category |-> LtvRiskCategory(percentage)]

\* tools.py 158-163
UtilizationRiskCategory(percentage) ==
    IF FLt(percentage, FFromInt(30)) THEN "LOW"
    ELSE IF FLe(percentage, FFromInt(50)) THEN "MEDIUM"
    ELSE "HIGH"

compute_credit_utilization_ratio(credit_used, credit_limit) ==
    IF FLe(credit_limit, FZero)
    THEN [error |-> "Credit limit must be greater than zero"]
    ELSE IF FLt(credit_used, FZero)
    THEN [error |-> "Credit used cannot be negative"]
    ELSE IF IsZero(credit_limit) THEN ZeroDivisionError
    ELSE LET ratio      == FDiv(credit_used, credit_limit)
             percentage == FMul(ratio, FFromInt(100))
         IN  [ratio         |-> PyRound(ratio, 4),
              percentage    |-> PyRound(percentage, 2),
              risk_category |-> UtilizationRiskCategory(percentage)]

\* tools.py 217-222
FoirRiskCategory(percentage) ==
    IF FLt(percentage, FFromInt(40)) THEN "LOW"
    ELSE IF FLe(percentage, FFromInt(55)) THEN "MEDIUM"
    ELSE "HIGH"

compute_foir(monthly_income, existing_emis, proposed_emi, other_obligations) ==
    IF FLe(monthly_income, FZero)
    THEN [error |-> "Monthly income must be greater than zero"]
    ELSE LET total_obligations ==
                 FAdd(FAdd(existing_emis, proposed_emi), other_obligations)
         IN  IF FLt(total_obligations, FZero)
             THEN [error |-> "Total obligations cannot be negative"]
             ELSE IF IsZero(monthly_income) THEN ZeroDivisionError
             ELSE LET ratio            == FDiv(total_obligations, monthly_income)
                      percentage       == FMul(ratio, FFromInt(100))
                      remaining_income == FSub(monthly_income, total_obligations)
                  IN  [ratio             |-> PyRound(ratio, 4),
                       percentage        |-> PyRound(percentage, 2),
                       total_obligations |-> PyRound(total_obligations, 2),
                       remaining_income  |-> PyRound(remaining_income, 2),
                       risk_category     |-> FoirRiskCategory(percentage)]

\* the record compute_emi returns (tools.py 279-288), for the monthly rate
\* and the emi
EmiRecord(principal, tenure_months, monthly_rate, emi) ==
    [emi                         |-> PyRound(emi, 2),
     total_payment               |-> PyRound(FMul(emi, FFromInt(tenure_months)), 2),
     total_interest              |->
         PyRound(FSub(FMul(emi, FFromInt(tenure_months)), principal), 2),
     interest_to_principal_ratio |->
         PyRound(FDiv(FSub(FMul(emi, FFromInt(tenure_months)), principal), principal), 4),
     monthly_interest_rate       |-> PyRound(FMul(monthly_rate, FFromInt(100)), 4)]

\* tools.py 271-277: the emi of a valid call, or the exception of its "/"
EmiOrException(principal, tenure_months, monthly_rate, growth) ==
    IF IsZero(monthly_rate)
    THEN IF tenure_months = 0 THEN ZeroDivisionError
         ELSE EmiRecord(principal, tenure_months, monthly_rate,
                        FDiv(principal, FFromInt(tenure_months)))
    ELSE IF IsZero(FSub(growth, FFromInt(1))) THEN ZeroDivisionError
    ELSE EmiRecord(principal, tenure_months, monthly_rate,
                   FDiv(FMul(FMul(principal, monthly_rate), growth),
                        FSub(growth, FFromInt(1))))

\* tools.py 269: monthly_rate = (annual_interest_rate / 100) / 12
MonthlyRate(annual_interest_rate) ==
    FDiv(FDiv(annual_interest_rate, FFromInt(100)), FFromInt(12))

\* (1 + monthly_rate) ** tenure_months, evaluated only for a rate # 0
Growth(annual_interest_rate, tenure_months) ==
    IF IsZero(MonthlyRate(annual_interest_rate)) \/ tenure_months < 1 THEN FFromInt(1)
    ELSE FPow(FAdd(FFromInt(1), MonthlyRate(annual_interest_rate)), tenure_months)

\* compute_emi with the tenure guard "< 0" instead of "<= 0"
compute_emi_tenure_lt(principal, annual_interest_rate, tenure_months) ==
    IF FLe(principal, FZero)
    THEN [error |-> "Principal must be greater than zero"]
    ELSE IF FLt(annual_interest_rate, FZero)
    THEN [error |-> "Interest rate cannot be negative"]
    ELSE IF tenure_months < 0
    THEN [error |-> "Tenure must be at least 1 month"]
    ELSE EmiOrException(principal, tenure_months, MonthlyRate(annual_interest_rate),
                        Growth(annual_interest_rate, tenure_months))

\* tools.py 259-288
compute_emi(principal, annual_interest_rate, tenure_months) ==
    IF FLe(principal, FZero)
    THEN [error |-> "Principal must be greater than zero"]
    ELSE IF FLt(annual_interest_rate, FZero)
    THEN [error |-> "Interest rate cannot be negative"]
    ELSE IF tenure_months <= 0
    THEN [error |-> "Tenure must be at least 1 month"]
    ELSE EmiOrException(principal, tenure_months, MonthlyRate(annual_interest_rate),
                        Growth(annual_interest_rate, tenure_months))

\* tools.py 323-328
DscrRiskCategory(ratio) ==
    IF FGt(ratio, F(15, 10)) THEN "LOW"
    ELSE IF FGe(ratio, FFromInt(1)) THEN "MEDIUM"
    ELSE "HIGH"

\* compute_dscr with the guard "< 0" instead of "<= 0"
compute_dscr_lt(net_operating_income, total_debt_service) ==
    IF FLt(total_debt_service, FZero)
    THEN [error |-> "Total debt service must be greater than zero"]
    ELSE IF IsZero(total_debt_service) THEN ZeroDivisionError
    ELSE LET ratio         == FDiv(net_operating_income, total_debt_service)
             excess_income == FSub(net_operating_income, total_debt_service)
         IN  [ratio               |-> PyRound(ratio, 4),
              excess_income       |-> PyRound(excess_income, 2),
              coverage_percentage |-> PyRound(FMul(ratio, FFromInt(100)), 2),
              risk_category       |-> DscrRiskCategory(ratio)]

compute_dscr(net_operating_income, total_debt_service) ==
    IF FLe(total_debt_service, FZero)
    THEN [error |-> "Total debt service must be greater than zero"]
    ELSE IF IsZero(total_debt_service) THEN ZeroDivisionError
    ELSE LET ratio         == FDiv(net_operating_income, total_debt_service)
             excess_income == FSub(net_operating_income, total_debt_service)
         IN  [ratio               |-> PyRound(ratio, 4),
              excess_income       |-> PyRound(excess_income, 2),
              coverage_percentage |-> PyRound(FMul(ratio, FFromInt(100)), 2),
              risk_category       |-> DscrRiskCategory(ratio)]

compute_collateral_coverage_ratio(collateral_value, loan_amount, liquidation_discount) ==
    IF FLe(loan_amount, FZero)
    THEN [error |-> "Loan amount must be greater than zero"]
    ELSE IF FLt(collateral_value, FZero)
    THEN [error |-> "Collateral value cannot be negative"]
    ELSE IF ~(FLe(FZero, liquidation_discount) /\ FLt(liquidation_discount, FFromInt(1)))
    THEN [error |-> "Liquidation discount must be between 0 and 1"]
    ELSE IF IsZero(loan_amount) THEN ZeroDivisionError
    ELSE LET net_collateral_value ==
                 FMul(collateral_value, FSub(FFromInt(1), liquidation_discount))
             coverage_ratio == FDiv(net_collateral_value, loan_amount)
             shortfall ==
                 IF FLt(coverage_ratio, FFromInt(1))
                 THEN FSub(loan_amount, net_collateral_value)
                 ELSE FZero
         IN  [coverage_ratio       |-> PyRound(coverage_ratio, 4),
              coverage_percentage  |-> PyRound(FMul(coverage_ratio, FFromInt(100)), 2),
              net_collateral_value |-> PyRound(net_collateral_value, 2),
              shortfall            |-> PyRound(shortfall, 2),
              risk_category        |-> (IF FGt(coverage_ratio, F(15, 10)) THEN "LOW"
                                        ELSE IF FGe(coverage_ratio, FFromInt(1)) THEN "MEDIUM"
                                        ELSE "HIGH")]

\* tools.py 392-401
StabilityScore(job_changes_last_5_years) ==
    IF job_changes_last_5_years = 0 THEN 20
    ELSE IF job_changes_last_5_years = 1 THEN 15
    ELSE IF job_changes_last_5_years = 2 THEN 10
    ELSE IF job_changes_last_5_years = 3 THEN 5
    ELSE 0

\* EmploymentTypeScore without the "unemployed" key, which then gets the
\* default of employment_scores.get
EmploymentTypeScoreNoUnemployed(employment_type) ==
    CASE employment_type = "salaried"       -> 30
      [] employment_type = "business_owner" -> 25
      [] employment_type = "self_employed"  -> 20
      [] employment_type = "freelancer"     -> 15
      [] OTHER                              -> 10

\* tools.py 375-383: employment_scores.get(employment_type, 10)
EmploymentTypeScore(employment_type) ==
    CASE employment_type = "salaried"       -> 30
      [] employment_type = "business_owner" -> 25
      [] employment_type = "self_employed"  -> 20
      [] employment_type = "freelancer"     -> 15
      [] employment_type = "unemployed"     -> 0
      [] OTHER                              -> 10

\* tools.py 406-411
EmploymentRiskCategory(total_score) ==
    IF FGe(total_score, FFromInt(70)) THEN "LOW"
    ELSE IF FGe(total_score, FFromInt(40)) THEN "MEDIUM"
    ELSE "HIGH"

assess_employment_stability(employment_type, years_in_current_job, total_work_experience, job_changes_last_5_years) ==
    LET base_score       == EmploymentTypeScore(employment_type)
        tenure_score     == FMin(FMul(years_in_current_job, FFromInt(6)), FFromInt(30))
        experience_score == FMin(FMul(total_work_experience, FFromInt(2)), FFromInt(20))
        stability_score  == StabilityScore(job_changes_last_5_years)
        sum              == FAdd(FAdd(FAdd(FFromInt(base_score), tenure_score),
                                      experience_score),
                                 FFromInt(stability_score))
        total_score      == FMin(sum, FFromInt(100))
    IN  [score         |-> PyRound(total_score, 2),
         risk_category |-> EmploymentRiskCategory(total_score),
         factors       |-> [employment_type_score |-> base_score,
                            tenure_score          |-> PyRound(tenure_score, 2),
                            experience_score      |-> PyRound(experience_score, 2),
                            stability_score       |-> stability_score]]

\* PaymentHistoryRiskCategory with "> 80" instead of ">= 80"
PaymentHistoryRiskCategoryGt(final_score) ==
    IF FGt(final_score, FFromInt(80)) THEN "LOW"
    ELSE IF FGe(final_score, FFromInt(50)) THEN "MEDIUM"
    ELSE "HIGH"

\* tools.py 484-489
PaymentHistoryRiskCategory(final_score) ==
    IF FGe(final_score, FFromInt(80)) THEN "LOW"
    ELSE IF FGe(final_score, FFromInt(50)) THEN "MEDIUM"
    ELSE "HIGH"

\* compute_payment_history_score counting the defaults as payment records
compute_payment_history_score_defaults_counted(total_accounts, on_time_payments, late_payments_30_days, late_payments_60_days, late_payments_90_plus_days, defaults) ==
    IF total_accounts <= 0
    THEN [error |-> "Total accounts must be at least 1"]
    ELSE LET total_payment_records ==
                 on_time_payments + late_payments_30_days
                 + late_payments_60_days + late_payments_90_plus_days + defaults
         IN  IF total_payment_records = 0
             THEN [error         |-> "No payment records available",
                   score         |-> 50 * 100,
                   risk_category |-> "MEDIUM"]
             ELSE LET on_time_rate ==
                          FMul(FDiv(FFromInt(on_time_payments),
                                    FFromInt(total_payment_records)),
                               FFromInt(100))
                      penalty ==
                          late_payments_30_days * 2 + late_payments_60_days * 5
                          + late_payments_90_plus_days * 10 + defaults * 25
                      final_score ==
                          FMin(FFromInt(100),
                               FMax(FZero, FSub(on_time_rate, FFromInt(penalty))))
                  IN  [score                 |-> PyRound(final_score, 2),
                       on_time_rate          |-> PyRound(on_time_rate, 2),
                       total_payment_records |-> total_payment_records,
                       penalty_points        |-> penalty,
                       risk_category         |-> PaymentHistoryRiskCategory(final_score)]

compute_payment_history_score(total_accounts, on_time_payments, late_payments_30_days, late_payments_60_days, late_payments_90_plus_days, defaults) ==
    IF total_accounts <= 0
    THEN [error |-> "Total accounts must be at least 1"]
    ELSE LET total_payment_records ==
                 on_time_payments + late_payments_30_days
                 + late_payments_60_days + late_payments_90_plus_days
         IN  IF total_payment_records = 0
             THEN [error         |-> "No payment records available",
                   score         |-> 50 * 100,
                   risk_category |-> "MEDIUM"]
             ELSE LET on_time_rate ==
                          FMul(FDiv(FFromInt(on_time_payments),
                                    FFromInt(total_payment_records)),
                               FFromInt(100))
                      penalty ==
                          late_payments_30_days * 2 + late_payments_60_days * 5
                          + late_payments_90_plus_days * 10 + defaults * 25
                      final_score ==
                          FMin(FFromInt(100),
                               FMax(FZero, FSub(on_time_rate, FFromInt(penalty))))
                  IN  [score                 |-> PyRound(final_score, 2),
                       on_time_rate          |-> PyRound(on_time_rate, 2),
                       total_payment_records |-> total_payment_records,
                       penalty_points        |-> penalty,
                       risk_category         |-> PaymentHistoryRiskCategory(final_score)]

\* assess_credit_score with "> 750" instead of ">= 750" for EXCELLENT
assess_credit_score_gt750(credit_score) ==
    IF credit_score < 300 \/ credit_score > 900
    THEN [error |-> "Credit score should be between 300 and 900"]
    ELSE LET band ==
                 IF credit_score > 750
                 THEN <<"EXCELLENT", "LOW",
                        "Eligible for best rates and terms. High approval probability.">>
                 ELSE IF credit_score >= 700
                 THEN <<"GOOD", "LOW", "Favorable terms available. Standard processing.">>
                 ELSE IF credit_score >= 650
                 THEN <<"FAIR", "MEDIUM",
                        "May qualify with higher interest rates. Additional documentation may help.">>
                 ELSE IF credit_score >= 550
                 THEN <<"POOR", "HIGH",
                        "Limited options. Consider secured loans or co-applicant.">>
                 ELSE <<"VERY_POOR", "HIGH",
                        "High rejection probability. Recommend credit repair before applying.">>
         IN  [score          |-> credit_score,
              rating         |-> band[1],
              risk_category  |-> band[2],
              recommendation |-> band[3]]

\* tools.py 525-554
assess_credit_score(credit_score) ==
    IF credit_score < 300 \/ credit_score > 900
    THEN [error |-> "Credit score should be between 300 and 900"]
    ELSE LET band ==
                 IF credit_score >= 750
                 THEN <<"EXCELLENT", "LOW",
                        "Eligible for best rates and terms. High approval probability.">>
                 ELSE IF credit_score >= 700
                 THEN <<"GOOD", "LOW", "Favorable terms available. Standard processing.">>
                 ELSE IF credit_score >= 650
                 THEN <<"FAIR", "MEDIUM",
                        "May qualify with higher interest rates. Additional documentation may help.">>
                 ELSE IF credit_score >= 550
                 THEN <<"POOR", "HIGH",
                        "Limited options. Consider secured loans or co-applicant.">>
                 ELSE <<"VERY_POOR", "HIGH",
                        "High rejection probability. Recommend credit repair before applying.">>
         IN  [score          |-> credit_score,
              rating         |-> band[1],
              risk_category  |-> band[2],
              recommendation |-> band[3]]

---------------------------------------------------------------------------
(* The two aggregators                                                     *)

\* DtiAssessment with the first comparison "<=" instead of "<"
DtiAssessmentLe(dti_percentage) ==
    IF FLe(dti_percentage, FFromInt(35)) THEN [status |-> "GOOD", points |-> 0]
    ELSE IF FLe(dti_percentage, FFromInt(50)) THEN [status |-> "MODERATE", points |-> 1]
    ELSE [status |-> "POOR", points |-> 2]

\* tools.py 664-671
DtiAssessment(dti_percentage) ==
    IF FLt(dti_percentage, FFromInt(35)) THEN [status |-> "GOOD", points |-> 0]
    ELSE IF FLe(dti_percentage, FFromInt(50)) THEN [status |-> "MODERATE", points |-> 1]
    ELSE [status |-> "POOR", points |-> 2]

\* tools.py 674-681
LtvAssessment(ltv_percentage) ==
    IF FLt(ltv_percentage, FFromInt(80)) THEN [status |-> "GOOD", points |-> 0]
    ELSE IF FLe(ltv_percentage, FFromInt(90)) THEN [status |-> "MODERATE", points |-> 1]
    ELSE [status |-> "POOR", points |-> 2]

\* tools.py 684-693
CreditScoreAssessment(credit_score) ==
    IF credit_score >= 750 THEN [status |-> "EXCELLENT", points |-> 0]
    ELSE IF credit_score >= 700 THEN [status |-> "GOOD", points |-> 0]
    ELSE IF credit_score >= 650 THEN [status |-> "MODERATE", points |-> 1]
    ELSE [status |-> "POOR", points |-> 2]

\* tools.py 696-703
EmploymentAssessment(employment_stability_score) ==
    IF FGe(employment_stability_score, FFromInt(70))
    THEN [status |-> "STABLE", points |-> 0]
    ELSE IF FGe(employment_stability_score, FFromInt(40))
    THEN [status |-> "MODERATE", points |-> 1]
    ELSE [status |-> "UNSTABLE", points |-> 2]

\* tools.py 706-713
PaymentHistoryAssessment(payment_history_score) ==
    IF FGe(payment_history_score, FFromInt(80))
    THEN [status |-> "EXCELLENT", points |-> 0]
    ELSE IF FGe(payment_history_score, FFromInt(50))
    THEN [status |-> "MODERATE", points |-> 1]
    ELSE [status |-> "POOR", points |-> 2]

\* OverallCategory with HIGH reaching up to 6 points instead of 5
OverallCategoryHighTo6(risk_points) ==
    IF risk_points = 0
    THEN <<"LOW", "Approve with standard terms. Strong credit profile.">>
    ELSE IF risk_points <= 2
    THEN <<"MEDIUM",
           "Approve with enhanced due diligence. Consider moderate rate adjustment.">>
    ELSE IF risk_points <= 6
    THEN <<"HIGH",
           "Additional mitigation required (collateral, guarantor). Higher risk pricing.">>
    ELSE <<"VERY_HIGH", "Consider rejection or significant risk mitigation measures.">>

\* OverallCategory with LOW reaching up to 2 points
OverallCategoryLowTo2(risk_points) ==
    IF risk_points <= 2
    THEN <<"LOW", "Approve with standard terms. Strong credit profile.">>
    ELSE IF risk_points <= 5
    THEN <<"HIGH",
           "Additional mitigation required (collateral, guarantor). Higher risk pricing.">>
    ELSE <<"VERY_HIGH", "Consider rejection or significant risk mitigation measures.">>

\* tools.py 716-727
OverallCategory(risk_points) ==
    IF risk_points = 0
    THEN <<"LOW", "Approve with standard terms. Strong credit profile.">>
    ELSE IF risk_points <= 2
    THEN <<"MEDIUM",
           "Approve with enhanced due diligence. Consider moderate rate adjustment.">>
    ELSE IF risk_points <= 5
    THEN <<"HIGH",
           "Additional mitigation required (collateral, guarantor). Higher risk pricing.">>
    ELSE <<"VERY_HIGH", "Consider rejection or significant risk mitigation measures.">>

classify_risk_category(dti_percentage, ltv_percentage, credit_score, employment_stability_score, payment_history_score) ==
    LET assessments ==
            [dti             |-> DtiAssessment(dti_percentage),
             ltv             |-> LtvAssessment(ltv_percentage),
             credit_score    |-> CreditScoreAssessment(credit_score),
             employment      |-> EmploymentAssessment(employment_stability_score),
             payment_history |-> PaymentHistoryAssessment(payment_history_score)]
        risk_points ==
            assessments.dti.points + assessments.ltv.points
            + assessments.credit_score.points + assessments.employment.points
            + assessments.payment_history.points
        overall == OverallCategory(risk_points)
    IN  [overall_category       |-> overall[1],
         total_risk_points      |-> risk_points,
         max_risk_points        |-> 10,
         individual_assessments |-> assessments,
         recommendation         |-> overall[2]]

\* tools.py 812-826
Grade(total_score) ==
    IF FGe(total_score, FFromInt(85))
    THEN <<"A", "APPROVE - Excellent risk profile. Offer best available rates.">>
    ELSE IF FGe(total_score, FFromInt(70))
    THEN <<"B", "APPROVE - Good risk profile. Standard terms apply.">>
    ELSE IF FGe(total_score, FFromInt(55))
    THEN <<"C", "CONDITIONAL APPROVE - Moderate risk. Consider risk-based pricing.">>
    ELSE IF FGe(total_score, FFromInt(40))
    THEN <<"D", "REVIEW - High risk. Requires senior approval and mitigation.">>
    ELSE <<"E", "DECLINE - Very high risk. Does not meet underwriting criteria.">>

\* tools.py 780-786: the seven component scores before rounding
ComponentScores(dti_percentage, ltv_percentage, credit_score, employment_stability_score, payment_history_score, credit_utilization_percentage, foir_percentage) ==
    [credit_score         |-> FMul(FDiv(FFromInt(credit_score - 300), FFromInt(600)),
                                   FFromInt(100)),
     payment_history      |-> payment_history_score,
     dti                  |-> FMax(FZero, FSub(FFromInt(100),
                                               FMul(dti_percentage, F(15, 10)))),
     ltv                  |-> FMax(FZero, FSub(FFromInt(100),
                                               FMul(ltv_percentage, F(9, 10)))),
     employment_stability |-> employment_stability_score,
     credit_utilization   |-> FMax(FZero, FSub(FFromInt(100),
                                               FMul(credit_utilization_percentage,
                                                    F(15, 10)))),
     foir                 |-> FMax(FZero, FSub(FFromInt(100),
                                               FMul(foir_percentage, F(13, 10))))]

\* WeightedTotal without the clamp of line 809
WeightedTotalUnclamped(c) ==
    FAdd(FAdd(FAdd(FAdd(FAdd(FAdd(
        FMul(c.credit_score, F(25, 100)),
        FMul(c.payment_history, F(20, 100))),
        FMul(c.dti, F(15, 100))),
        FMul(c.ltv, F(15, 100))),
        FMul(c.employment_stability, F(10, 100))),
        FMul(c.credit_utilization, F(10, 100))),
        FMul(c.foir, F(5, 100)))

\* WeightedTotal with the FOIR component weighted 0.10 instead of 0.05
WeightedTotalFoirWeight(c) ==
    FMin(FFromInt(100), FMax(FZero,
        FAdd(FAdd(FAdd(FAdd(FAdd(FAdd(
            FMul(c.credit_score, F(25, 100)),
            FMul(c.payment_history, F(20, 100))),
            FMul(c.dti, F(15, 100))),
            FMul(c.ltv, F(15, 100))),
            FMul(c.employment_stability, F(10, 100))),
            FMul(c.credit_utilization, F(10, 100))),
            FMul(c.foir, F(10, 100)))))

\* WeightedTotal with the employment term subtracted instead of added
WeightedTotalMinusEmployment(c) ==
    FMin(FFromInt(100), FMax(FZero,
        FAdd(FAdd(FSub(FAdd(FAdd(FAdd(
            FMul(c.credit_score, F(25, 100)),
            FMul(c.payment_history, F(20, 100))),
            FMul(c.dti, F(15, 100))),
            FMul(c.ltv, F(15, 100))),
            FMul(c.employment_stability, F(10, 100))),
            FMul(c.credit_utilization, F(10, 100))),
            FMul(c.foir, F(5, 100)))))

\* tools.py 799-809
WeightedTotal(c) ==
    LET total_score ==
            FAdd(FAdd(FAdd(FAdd(FAdd(FAdd(
                FMul(c.credit_score, F(25, 100)),
                FMul(c.payment_history, F(20, 100))),
                FMul(c.dti, F(15, 100))),
                FMul(c.ltv, F(15, 100))),
                FMul(c.employment_stability, F(10, 100))),
                FMul(c.credit_utilization, F(10, 100))),
                FMul(c.foir, F(5, 100)))
    IN  FMin(FFromInt(100), FMax(FZero, total_score))

\* tools.py 789-797 and 828-833: the returned dict.  The weights of the
\* component_scores dict are recorded in hundredths.
ScorerRecord(c, total_score) ==
    [total_score |-> PyRound(total_score, 2),
     grade       |-> Grade(total_score)[1],
     component_scores |->
         [credit_score         |-> [score |-> PyRound(c.credit_score, 2), weight |-> 25],
          payment_history      |-> [score |-> PyRound(c.payment_history, 2), weight |-> 20],
          dti                  |-> [score |-> PyRound(c.dti, 2), weight |-> 15],
          ltv                  |-> [score |-> PyRound(c.ltv, 2), weight |-> 15],
          employment_stability |-> [score |-> PyRound(c.employment_stability, 2),
                                    weight |-> 10],
          credit_utilization   |-> [score |-> PyRound(c.credit_utilization, 2),
                                    weight |-> 10],
          foir                 |-> [score |-> PyRound(c.foir, 2), weight |-> 5]],
     underwriting_recommendation |-> Grade(total_score)[2]]

\* tools.py 799-833: the total of the components, and the dict of both
ScorerResult(c) == ScorerRecord(c, WeightedTotal(c))

\* the local variables of the function are the parameters of ScorerResult
\* and ScorerRecord
compute_total_risk_score(dti_percentage, ltv_percentage, credit_score, employment_stability_score, payment_history_score, credit_utilization_percentage, foir_percentage) ==
    ScorerResult(ComponentScores(dti_percentage, ltv_percentage, credit_score,
                                 employment_stability_score, payment_history_score,
                                 credit_utilization_percentage, foir_percentage))

---------------------------------------------------------------------------
(* One call of one tool.  The tools keep no state: the caller picks a tool *)
(* and its arguments (Init), the tool runs and returns its dict (the       *)
(* action of that tool).                                                   *)

VARIABLES pc, tool, args, result

vars == <<pc, tool, args, result, pow>>

NoResult == [pending |-> TRUE]

EmptyArgs == [x \in {} |-> 0]

\* an argument with a default: absent, or one of S
Optional(name, S) == {EmptyArgs} \cup {name :> v : v \in S}

Arg(a, name, default) == IF name \in DOMAIN a THEN a[name] ELSE default

\* how far around a threshold, in hundredths of the numerator, the ratio
\* calculators are called
Spread == 1

\* denominators: -100.00, 0, 100.00 and 250.00
Denominators == {-10000, 0, 10000, 25000}

\* numerators: a negative one, 0, and those that put the percentage on and
\* around the thresholds lo and hi for the positive denominators
Numerators(lo, hi) ==
    {-100, 0} \cup
    {(d \div 100) * t + k : d \in {10000, 25000}, t \in {lo, hi}, k \in -Spread..Spread}

\* with 5.81 against 16.60, a DTI of exactly 35 percent whose two decimals
\* are not doubles
DtiArgs ==
    [monthly_income : Denominators, total_monthly_debt : Numerators(35, 50)]
    \cup {[monthly_income |-> 1660, total_monthly_debt |-> 581]}

\* with 4.52 against 5.65 (80 percent) and 0.27 against 0.30 (90 percent)
LtvArgs ==
    [loan_amount : Numerators(80, 90), property_value : Denominators]
    \cup {[loan_amount |-> 452, property_value |-> 565],
          [loan_amount |-> 27, property_value |-> 30]}

\* with 2.01 against 6.70 (30 percent)
UtilizationArgs ==
    [credit_used : Numerators(30, 50), credit_limit : Denominators]
    \cup {[credit_used |-> 201, credit_limit |-> 670]}

FoirArgs ==
    {a @@ o : a \in [monthly_income : Denominators,
                     existing_emis  : Numerators(40, 55),
                     proposed_emi   : {-100, 0}],
              o \in Optional("other_obligations", {100})}
    \cup {[monthly_income |-> 10000, existing_emis |-> 30000, proposed_emi |-> 0],
          [monthly_income |-> 10000000, existing_emis |-> 2000000, proposed_emi |-> 1500000, other_obligations |-> 500000],
          [monthly_income |-> 10000, existing_emis |-> 30, proposed_emi |-> -10, other_obligations |-> -20],
          [monthly_income |-> 10000, existing_emis |-> 10, proposed_emi |-> 20, other_obligations |-> -30],
          [monthly_income |-> 10000, existing_emis |-> 10, proposed_emi |-> 30, other_obligations |-> -40],
          [monthly_income |-> 565, existing_emis |-> 226, proposed_emi |-> 0],
          [monthly_income |-> 10000, existing_emis |-> 5000, proposed_emi |-> -100, other_obligations |-> -100]}

DscrArgs ==
    [net_operating_income : Numerators(100, 150) \cup {-10000},
     total_debt_service   : Denominators]
    \cup {[net_operating_income |-> 105, total_debt_service |-> 70],
          [net_operating_income |-> 135, total_debt_service |-> 90],
          [net_operating_income |-> 30000000, total_debt_service |-> 30000000],
          [net_operating_income |-> 50000000, total_debt_service |-> 30000000]}

CollateralArgs ==
    {a @@ o : a \in [collateral_value : Numerators(100, 150),
                     loan_amount      : Denominators],
              o \in Optional("liquidation_discount", {-10, 0, 20, 50, 99, 100})}
    \cup {[collateral_value |-> c, loan_amount |-> 10000] : c \in {12499, 12500, 18750, 18751}}
    \cup {[collateral_value |-> 100000, loan_amount |-> 10000, liquidation_discount |-> 90]}

ComputeDebtToIncomeRatio ==
    /\ pc = "call" /\ tool = "compute_debt_to_income_ratio"
    /\ result' = compute_debt_to_income_ratio(Dec(args.monthly_income),
                                              Dec(args.total_monthly_debt))
    /\ pc' = "return"
    /\ UNCHANGED <<tool, args, pow>>

ComputeLoanToValueRatio ==
    /\ pc = "call" /\ tool = "compute_loan_to_value_ratio"
    /\ result' = compute_loan_to_value_ratio(Dec(args.loan_amount),
                                             Dec(args.property_value))
    /\ pc' = "return"
    /\ UNCHANGED <<tool, args, pow>>

ComputeCreditUtilizationRatio ==
    /\ pc = "call" /\ tool = "compute_credit_utilization_ratio"
    /\ result' = compute_credit_utilization_ratio(Dec(args.credit_used),
                                                  Dec(args.credit_limit))
    /\ pc' = "return"
    /\ UNCHANGED <<tool, args, pow>>

ComputeFoir ==
    /\ pc = "call" /\ tool = "compute_foir"
    /\ result' = compute_foir(Dec(args.monthly_income), Dec(args.existing_emis),
                              Dec(args.proposed_emi),
                              Dec(Arg(args, "other_obligations", 0)))
    /\ pc' = "return"
    /\ UNCHANGED <<tool, args, pow>>

ComputeDscr ==
    /\ pc = "call" /\ tool = "compute_dscr"
    /\ result' = compute_dscr(Dec(args.net_operating_income),
                              Dec(args.total_debt_service))
    /\ pc' = "return"
    /\ UNCHANGED <<tool, args, pow>>

ComputeCollateralCoverageRatio ==
    /\ pc = "call" /\ tool = "compute_collateral_coverage_ratio"
    /\ result' = compute_collateral_coverage_ratio(
                     Dec(args.collateral_value), Dec(args.loan_amount),
                     Dec(Arg(args, "liquidation_discount", 20)))
    /\ pc' = "return"
    /\ UNCHANGED <<tool, args, pow>>

InitRatios ==
    /\ pc = "call"
    /\ result = NoResult
    /\ \/ tool = "compute_debt_to_income_ratio" /\ args \in DtiArgs
       \/ tool = "compute_loan_to_value_ratio" /\ args \in LtvArgs
       \/ tool = "compute_credit_utilization_ratio" /\ args \in UtilizationArgs
       \/ tool = "compute_foir" /\ args \in FoirArgs
       \/ tool = "compute_dscr" /\ args \in DscrArgs
       \/ tool = "compute_collateral_coverage_ratio" /\ args \in CollateralArgs
    /\ pow = NoPow

NextRatios ==
    \/ ComputeDebtToIncomeRatio
    \/ ComputeLoanToValueRatio
    \/ ComputeCreditUtilizationRatio
    \/ ComputeFoir
    \/ ComputeDscr
    \/ ComputeCollateralCoverageRatio

SpecRatios == InitRatios /\ [][NextRatios]_vars

---------------------------------------------------------------------------
(* One call of the weighted scorer, with in-range and out-of-range         *)
(* arguments (the scorer validates nothing).                               *)

ScorerRequired ==
    [dti_percentage             : {0, 3500, 7000},
     ltv_percentage             : {0, 8000},
     credit_score               : {0, 720, 900, 1500},
     employment_stability_score : {-5000, 7500, 10000},
     payment_history_score      : {-5000, 5673, 5675, 8500, 15000}]

ScorerUtilization == {2500, 8000}

ScorerFoir == {4000, 9000}

ScorerArgs ==
    {a @@ u @@ f : a \in ScorerRequired,
                   u \in Optional("credit_utilization_percentage", ScorerUtilization),
                   f \in Optional("foir_percentage", ScorerFoir)}

\* tools.py 739-747: the call with the defaults of the signature filled in
ScoreOf(a) ==
    compute_total_risk_score(
        Dec(a.dti_percentage), Dec(a.ltv_percentage), a.credit_score,
        Dec(a.employment_stability_score), Dec(a.payment_history_score),
        Dec(Arg(a, "credit_utilization_percentage", 2500)),
        Dec(Arg(a, "foir_percentage", 4000)))

ComputeTotalRiskScore ==
    /\ pc = "call" /\ tool = "compute_total_risk_score"
    /\ result' = ScoreOf(args)
    /\ pc' = "return"
    /\ UNCHANGED <<tool, args, pow>>

InitScorer ==
    /\ pc = "call"
    /\ result = NoResult
    /\ tool = "compute_total_risk_score"
    /\ args \in ScorerArgs
    /\ pow = NoPow

NextScorer == ComputeTotalRiskScore

SpecScorer == InitScorer /\ [][NextScorer]_vars

---------------------------------------------------------------------------
(* One call of the classifier, with every factor on and next to its        *)
(* thresholds.                                                             *)

ClassifierArgs ==
    [dti_percentage             : {3499, 3500, 5000, 5001},
     ltv_percentage             : {7999, 8000, 9000, 9001},
     credit_score               : {300, 649, 650, 699, 700, 750},
     employment_stability_score : {3999, 4000, 6999, 7000},
     payment_history_score      : {4999, 5000, 7999, 8000}]

ClassifyRiskCategory ==
    /\ pc = "call" /\ tool = "classify_risk_category"
    /\ result' = classify_risk_category(
                     Dec(args.dti_percentage), Dec(args.ltv_percentage),
                     args.credit_score, Dec(args.employment_stability_score),
                     Dec(args.payment_history_score))
    /\ pc' = "return"
    /\ UNCHANGED <<tool, args, pow>>

InitClassifier ==
    /\ pc = "call"
    /\ result = NoResult
    /\ tool = "classify_risk_category"
    /\ args \in ClassifierArgs
    /\ pow = NoPow

NextClassifier == ClassifyRiskCategory

SpecClassifier == InitClassifier /\ [][NextClassifier]_vars

---------------------------------------------------------------------------
(* Properties of compute_total_risk_score                                  *)

ScorerReturned == pc = "return" /\ tool = "compute_total_risk_score"

\* C1: whatever the arguments, in range or not, the returned total_score
\* lies in [0, 100] (0..10000 hundredths).
C1_TotalScoreInRange ==
    ScorerReturned => result.total_score >= 0 /\ result.total_score <= 10000

\* a call whose weighted sum exceeds 100 (credit score 1500, payment history
\* 150, no debt), returned as 100
C1_Witness ==
    /\ ScorerReturned
    /\ args.credit_score = 1500 /\ args.payment_history_score = 15000
    /\ args.dti_percentage = 0
    /\ result.total_score = 10000

\* the values the model draws for one argument of the scorer
ScorerValues(f) ==
    CASE f = "credit_utilization_percentage" -> ScorerUtilization \cup {2500}
      [] f = "foir_percentage"               -> ScorerFoir \cup {4000}
      [] OTHER                               -> {a[f] : a \in ScorerRequired}

ScorerValue(a, f) ==
    CASE f = "credit_utilization_percentage" -> Arg(a, f, 2500)
      [] f = "foir_percentage"               -> Arg(a, f, 4000)
      [] OTHER                               -> a[f]

\* the least drawn value of argument f above the one of a, if any
NextAbove(a, f) ==
    {w \in ScorerValues(f) :
        /\ w > ScorerValue(a, f)
        /\ \A u \in ScorerValues(f) : u > ScorerValue(a, f) => w <= u}

\* the total_score of the call that differs from a in argument f alone
TotalWith(a, f, w) == ScoreOf((f :> w) @@ a).total_score

\* C2: with the other six arguments fixed, total_score does not decrease
\* when credit_score, payment_history_score or employment_stability_score
\* increases, and does not increase when dti_percentage, ltv_percentage,
\* credit_utilization_percentage or foir_percentage increases.  (Stated for
\* each drawn value and the next drawn value above it; the order of the
\* totals is transitive.)
C2_Monotone ==
    ScorerReturned =>
        /\ \A f \in {"credit_score", "payment_history_score",
                     "employment_stability_score"} :
               \A w \in NextAbove(args, f) :
                   TotalWith(args, f, w) >= result.total_score
        /\ \A f \in {"dti_percentage", "ltv_percentage",
                     "credit_utilization_percentage", "foir_percentage"} :
               \A w \in NextAbove(args, f) :
                   TotalWith(args, f, w) <= result.total_score

\* a call that a larger employment score strictly improves and a larger
\* DTI percentage strictly worsens
C2_Witness ==
    /\ ScorerReturned
    /\ \E w \in NextAbove(args, "employment_stability_score") :
           TotalWith(args, "employment_stability_score", w) > result.total_score
    /\ \E w \in NextAbove(args, "dti_percentage") :
           TotalWith(args, "dti_percentage", w) < result.total_score

Max(a, b) == IF a >= b THEN a ELSE b

\* The seven components as the decimal arithmetic of the specification
\* gives them, exactly, in units of 1/3000: the credit component is
\* (credit_score - 300) / 600 * 100, a percentage p (in hundredths) gives
\* max(0, 100 - p * k) for k = k10 / 10, a score is taken as it is.
ExactCredit(credit_score) == 500 * (credit_score - 300)
ExactPenalty(p, k10) == Max(0, 300000 - 3 * k10 * p)
ExactScore(h) == 30 * h

ExactComponents(a) ==
    [credit_score         |-> ExactCredit(a.credit_score),
     payment_history      |-> ExactScore(a.payment_history_score),
     dti                  |-> ExactPenalty(a.dti_percentage, 15),
     ltv                  |-> ExactPenalty(a.ltv_percentage, 9),
     employment_stability |-> ExactScore(a.employment_stability_score),
     credit_utilization   |->
         ExactPenalty(Arg(a, "credit_utilization_percentage", 2500), 15),
     foir                 |-> ExactPenalty(Arg(a, "foir_percentage", 4000), 13)]

ComponentNames ==
    {"credit_score", "payment_history", "dti", "ltv", "employment_stability",
     "credit_utilization", "foir"}

RECURSIVE SumOver(_, _)
SumOver(S, g) ==
    IF S = {} THEN 0
    ELSE LET k == CHOOSE k \in S : TRUE IN g[k] + SumOver(S \ {k}, g)

\* the sum of weight * component, in units of 1/300000, clamped to [0, 100]
ExactTotal(a, weights) ==
    Min(30000000,
        Max(0, SumOver(ComponentNames,
                       [k \in ComponentNames |-> weights[k] * ExactComponents(a)[k]])))

Abs(n) == IF n < 0 THEN -n ELSE n

\* C3: the seven weights are 0.25, 0.20, 0.15, 0.15, 0.10, 0.10 and 0.05
\* and sum to 1 (also as the doubles the code adds up); each returned
\* component is its formula rounded to two decimals; total_score is the
\* clamp to [0, 100] of the sum of component * weight, rounded to two
\* decimals; omitted utilization and FOIR count as 25.0 and 40.0.
C3_WeightedSum ==
    ScorerReturned =>
        LET cs == result.component_scores
            w  == [k \in ComponentNames |-> cs[k].weight]
        IN  /\ w = [credit_score |-> 25, payment_history |-> 20, dti |-> 15,
                    ltv |-> 15, employment_stability |-> 10,
                    credit_utilization |-> 10, foir |-> 5]
            /\ SumOver(ComponentNames, w) = 100
            /\ FAdd(FAdd(FAdd(FAdd(FAdd(FAdd(F(25, 100), F(20, 100)), F(15, 100)),
                                   F(15, 100)), F(10, 100)), F(10, 100)),
                    F(5, 100)) = FFromInt(1)
            /\ \A k \in ComponentNames :
                   Abs(30 * cs[k].score - ExactComponents(args)[k]) <= 15
            /\ Abs(3000 * result.total_score - ExactTotal(args, w)) <= 1500

\* a call with both defaults omitted, a floored DTI component and a total
\* strictly inside (0, 100)
C3_Witness ==
    /\ ScorerReturned
    /\ "credit_utilization_percentage" \notin DOMAIN args
    /\ "foir_percentage" \notin DOMAIN args
    /\ args.dti_percentage = 7000
    /\ result.component_scores.dti.score = 0
    /\ result.total_score > 0 /\ result.total_score < 10000

\* the band of a total given in hundredths
GradeBand(h) ==
    IF h >= 8500 THEN "A"
    ELSE IF h >= 7000 THEN "B"
    ELSE IF h >= 5500 THEN "C"
    ELSE IF h >= 4000 THEN "D"
    ELSE "E"

GradeRecommendation(g) ==
    CASE g = "A" -> "APPROVE - Excellent risk profile. Offer best available rates."
      [] g = "B" -> "APPROVE - Good risk profile. Standard terms apply."
      [] g = "C" -> "CONDITIONAL APPROVE - Moderate risk. Consider risk-based pricing."
      [] g = "D" -> "REVIEW - High risk. Requires senior approval and mitigation."
      [] g = "E" -> "DECLINE - Very high risk. Does not meet underwriting criteria."

ScorerArgsValid ==
    /\ args.credit_score >= 300 /\ args.credit_score <= 900
    /\ \A f \in {"employment_stability_score", "payment_history_score"} :
           args[f] >= 0 /\ args[f] <= 10000
    /\ \A f \in {"dti_percentage", "ltv_percentage", "credit_utilization_percentage",
                 "foir_percentage"} : ScorerValue(args, f) >= 0

\* C4: the grade of a result is the band of the total_score of that result:
\* A from 85, B from 70, C from 55, D from 40, else E, with the
\* recommendation of that grade.  (Stated for the calls with valid
\* arguments, which the claim includes.)
C4_GradeOfReturnedTotal ==
    ScorerReturned /\ ScorerArgsValid =>
        /\ result.grade = GradeBand(result.total_score)
        /\ result.underwriting_recommendation = GradeRecommendation(result.grade)

---------------------------------------------------------------------------
(* Properties of classify_risk_category                                    *)

ClassifierReturned == pc = "return" /\ tool = "classify_risk_category"

FactorNames == {"dti", "ltv", "credit_score", "employment", "payment_history"}

CategoryOfPoints(t) ==
    IF t = 0 THEN "LOW"
    ELSE IF t \in 1..2 THEN "MEDIUM"
    ELSE IF t \in 3..5 THEN "HIGH"
    ELSE "VERY_HIGH"

CategoryRecommendation(c) ==
    CASE c = "LOW" -> "Approve with standard terms. Strong credit profile."
      [] c = "MEDIUM" ->
            "Approve with enhanced due diligence. Consider moderate rate adjustment."
      [] c = "HIGH" ->
            "Additional mitigation required (collateral, guarantor). Higher risk pricing."
      [] c = "VERY_HIGH" -> "Consider rejection or significant risk mitigation measures."

\* C5: each of the five individual assessments has 0, 1 or 2 points,
\* total_risk_points is their sum and lies in 0..10, overall_category is
\* LOW for 0, MEDIUM for 1..2, HIGH for 3..5 and VERY_HIGH for 6..10 points,
\* with the recommendation of that category.
C5_PointsAndCategory ==
    ClassifierReturned =>
        LET ia == result.individual_assessments
            t  == result.total_risk_points
        IN  /\ DOMAIN ia = FactorNames
            /\ \A k \in FactorNames : ia[k].points \in {0, 1, 2}
            /\ t = SumOver(FactorNames, [k \in FactorNames |-> ia[k].points])
            /\ t \in 0..10
            /\ result.overall_category = CategoryOfPoints(t)
            /\ result.recommendation = CategoryRecommendation(result.overall_category)

\* a call that collects exactly 6 points, the least VERY_HIGH total
C5_Witness ==
    /\ ClassifierReturned
    /\ result.total_risk_points = 6
    /\ result.overall_category = "VERY_HIGH"

PointsOfCategory(c) ==
    CASE c = "LOW" -> 0 [] c = "MEDIUM" -> 1 [] c = "HIGH" -> 2

\* C6: the classifier gives a factor 0, 1 or 2 points exactly when the
\* calculator of that factor buckets the same value as LOW, MEDIUM or HIGH:
\* the DTI and LTV percentage as compute_debt_to_income_ratio and
\* compute_loan_to_value_ratio bucket their percentage, the credit score as
\* assess_credit_score does, the two scores as assess_employment_stability
\* and compute_payment_history_score bucket their score.
C6_BandsMirrorCalculators ==
    ClassifierReturned =>
        LET ia == result.individual_assessments
        IN  /\ ia.dti.points =
                   PointsOfCategory(DtiRiskCategory(Dec(args.dti_percentage)))
            /\ ia.ltv.points =
                   PointsOfCategory(LtvRiskCategory(Dec(args.ltv_percentage)))
            /\ ia.credit_score.points =
                   PointsOfCategory(assess_credit_score(args.credit_score).risk_category)
            /\ ia.employment.points =
                   PointsOfCategory(
                       EmploymentRiskCategory(Dec(args.employment_stability_score)))
            /\ ia.payment_history.points =
                   PointsOfCategory(
                       PaymentHistoryRiskCategory(Dec(args.payment_history_score)))

\* a call with every factor exactly on a threshold where the band changes
C6_Witness ==
    /\ ClassifierReturned
    /\ args.dti_percentage = 3500 /\ args.ltv_percentage = 8000
    /\ args.credit_score = 650 /\ args.employment_stability_score = 4000
    /\ args.payment_history_score = 5000
    /\ \A k \in FactorNames : result.individual_assessments[k].points = 1

---------------------------------------------------------------------------
(* Properties of the ratio calculators                                     *)

PercentageTools ==
    {"compute_debt_to_income_ratio", "compute_loan_to_value_ratio",
     "compute_credit_utilization_ratio", "compute_foir"}

\* the lower and the upper threshold of a calculator, in percent
Thresholds(t) ==
    CASE t = "compute_debt_to_income_ratio"     -> <<35, 50>>
      [] t = "compute_loan_to_value_ratio"      -> <<80, 90>>
      [] t = "compute_credit_utilization_ratio" -> <<30, 50>>
      [] t = "compute_foir"                     -> <<40, 55>>

\* numerator and denominator of the call, in hundredths
Numerator ==
    CASE tool = "compute_debt_to_income_ratio"     -> args.total_monthly_debt
      [] tool = "compute_loan_to_value_ratio"      -> args.loan_amount
      [] tool = "compute_credit_utilization_ratio" -> args.credit_used
      [] tool = "compute_foir" ->
            args.existing_emis + args.proposed_emi + Arg(args, "other_obligations", 0)
      [] tool = "compute_dscr"                      -> args.net_operating_income
      [] tool = "compute_collateral_coverage_ratio" -> args.collateral_value

Denominator ==
    CASE tool \in {"compute_debt_to_income_ratio", "compute_foir"} -> args.monthly_income
      [] tool = "compute_loan_to_value_ratio"       -> args.property_value
      [] tool = "compute_credit_utilization_ratio"  -> args.credit_limit
      [] tool = "compute_dscr"                      -> args.total_debt_service
      [] tool = "compute_collateral_coverage_ratio" -> args.loan_amount

\* the arguments meet the documented preconditions
RatioArgsValid ==
    /\ Denominator > 0
    /\ IF tool = "compute_foir"
       THEN /\ args.existing_emis >= 0 /\ args.proposed_emi >= 0
            /\ Arg(args, "other_obligations", 0) >= 0
       ELSE Numerator >= 0

\* the bucket of the percentage num / den * 100 in exact arithmetic
ExactBucket(num, den, lo, hi) ==
    IF 100 * num < lo * den THEN "LOW"
    ELSE IF 100 * num <= hi * den THEN "MEDIUM"
    ELSE "HIGH"

\* C7: for the four percentage calculators and valid arguments,
\* risk_category is LOW iff numerator / denominator * 100 < lower, MEDIUM
\* iff it is in lower..upper inclusive, HIGH iff it is > upper, with the
\* thresholds 35/50 (DTI), 80/90 (LTV), 30/50 (utilization), 40/55 (FOIR).
C7_ThreeWaySplit ==
    pc = "return" /\ tool \in PercentageTools /\ RatioArgsValid =>
        result.risk_category =
            ExactBucket(Numerator, Denominator,
                        Thresholds(tool)[1], Thresholds(tool)[2])

\* the DTI call returned, for valid arguments whose percentage is exactly
\* p hundredths
DtiAt(p) ==
    /\ pc = "return" /\ tool = "compute_debt_to_income_ratio"
    /\ RatioArgsValid
    /\ 10000 * args.total_monthly_debt = p * args.monthly_income

\* C8: DTI 34.99, 35.00, 35.01 give LOW, LOW, MEDIUM and DTI
\* 49.99, 50.00, 50.01 give MEDIUM, MEDIUM, HIGH.
C8_BoundariesAsClaimed ==
    /\ DtiAt(3499) => result.risk_category = "LOW"
    /\ DtiAt(3500) => result.risk_category = "LOW"
    /\ DtiAt(3501) => result.risk_category = "MEDIUM"
    /\ DtiAt(4999) => result.risk_category = "MEDIUM"
    /\ DtiAt(5000) => result.risk_category = "MEDIUM"
    /\ DtiAt(5001) => result.risk_category = "HIGH"

\* the bucket of a returned percentage p (in hundredths)
ReturnedBucket(p, lo, hi) ==
    IF p < lo * 100 THEN "LOW"
    ELSE IF p <= hi * 100 THEN "MEDIUM"
    ELSE "HIGH"

\* C9: in every success result of a percentage calculator, risk_category
\* is the bucket of the percentage field of that result under the
\* thresholds of the calculator (so equal returned percentages carry equal
\* categories).
C9_CategoryOfReturnedPercentage ==
    pc = "return" /\ tool \in PercentageTools /\ "percentage" \in DOMAIN result =>
        result.risk_category =
            ReturnedBucket(result.percentage,
                           Thresholds(tool)[1], Thresholds(tool)[2])

RatioTools ==
    PercentageTools \cup {"compute_dscr", "compute_collateral_coverage_ratio"}

\* C10: each of the six calculators returns a record whose only field is
\* error when its denominator is zero or negative, whatever the other
\* arguments are; the division is not reached.
C10_DenominatorError ==
    pc = "return" /\ tool \in RatioTools /\ Denominator <= 0 =>
        DOMAIN result = {"error"}

\* compute_dscr called with a positive income and a debt service of 0
C10_Witness ==
    /\ pc = "return" /\ tool = "compute_dscr"
    /\ args.total_debt_service = 0 /\ args.net_operating_income > 0
    /\ DOMAIN result = {"error"}

---------------------------------------------------------------------------
(* One call of an assessment tool: assess_employment_stability,            *)
(* compute_payment_history_score or assess_credit_score.  None of the      *)
(* three validates more than the code shows, so negative and unknown       *)
(* arguments are drawn too.                                                *)

EmploymentTypes ==
    {"salaried", "self_employed", "business_owner", "freelancer", "unemployed"}

\* the two year arguments are recorded in thousandths of a year
Milli(t) == F(t, 1000)

\* 0.59, 0.6 and 0.61 years of tenure with 3.2 or 8.2 years of experience
\* put a salaried applicant next to and on 40 and 70; 0.666 years with 8
\* years gives 69.996, and 2.333 with 7.333 years gives factors that the
\* result rounds
EmploymentArgs ==
    {a @@ o : a \in [employment_type       : EmploymentTypes \cup {"contractor"},
                     years_in_current_job  :
                         {-5000, 0, 590, 600, 610, 666, 2333, 5000, 20000},
                     total_work_experience :
                         {-1000, 0, 3200, 7333, 8000, 8200, 10000, 50000}],
              o \in Optional("job_changes_last_5_years", {-1, 0, 1, 2, 3, 4, 7})}

PaymentHistoryArgs ==
    {a @@ o1 @@ o2 @@ o3 @@ o4 :
         a  \in [total_accounts : {-1, 0, 1, 5}, on_time_payments : {-1, 0, 1, 3, 9, 58, 440}],
         o1 \in Optional("late_payments_30_days", {-1, 0, 2, 9}),
         o2 \in Optional("late_payments_60_days", {1, 2}),
         o3 \in Optional("late_payments_90_plus_days", {1}),
         o4 \in Optional("defaults", {-1, 1, 2})}

CreditScoreArgs == [credit_score : 250..950]

AssessEmploymentStability ==
    /\ pc = "call" /\ tool = "assess_employment_stability"
    /\ result' = assess_employment_stability(
                     args.employment_type, Milli(args.years_in_current_job),
                     Milli(args.total_work_experience),
                     Arg(args, "job_changes_last_5_years", 0))
    /\ pc' = "return"
    /\ UNCHANGED <<tool, args, pow>>

ComputePaymentHistoryScore ==
    /\ pc = "call" /\ tool = "compute_payment_history_score"
    /\ result' = compute_payment_history_score(
                     args.total_accounts, args.on_time_payments,
                     Arg(args, "late_payments_30_days", 0),
                     Arg(args, "late_payments_60_days", 0),
                     Arg(args, "late_payments_90_plus_days", 0),
                     Arg(args, "defaults", 0))
    /\ pc' = "return"
    /\ UNCHANGED <<tool, args, pow>>

AssessCreditScore ==
    /\ pc = "call" /\ tool = "assess_credit_score"
    /\ result' = assess_credit_score(args.credit_score)
    /\ pc' = "return"
    /\ UNCHANGED <<tool, args, pow>>

InitAssessments ==
    /\ pc = "call"
    /\ result = NoResult
    /\ \/ tool = "assess_employment_stability" /\ args \in EmploymentArgs
       \/ tool = "compute_payment_history_score" /\ args \in PaymentHistoryArgs
       \/ tool = "assess_credit_score" /\ args \in CreditScoreArgs
    /\ pow = NoPow

NextAssessments ==
    \/ AssessEmploymentStability
    \/ ComputePaymentHistoryScore
    \/ AssessCreditScore

SpecAssessments == InitAssessments /\ [][NextAssessments]_vars

---------------------------------------------------------------------------
(* Properties of compute_payment_history_score                             *)

PaymentHistoryReturned == pc = "return" /\ tool = "compute_payment_history_score"

Late30 == Arg(args, "late_payments_30_days", 0)
Late60 == Arg(args, "late_payments_60_days", 0)
Late90 == Arg(args, "late_payments_90_plus_days", 0)
Defaults == Arg(args, "defaults", 0)

\* the payment-record counts of the call
PaymentCounts == <<args.on_time_payments, Late30, Late60, Late90>>

PaymentRecords == args.on_time_payments + Late30 + Late60 + Late90

\* C11: with total_accounts >= 1 and every payment-record count zero, the
\* result is the neutral fallback, score 50 and MEDIUM, and it is not an
\* error result: it has no error field.
C11_FallbackIsNotAnError ==
    /\ PaymentHistoryReturned
    /\ args.total_accounts >= 1
    /\ \A i \in 1..4 : PaymentCounts[i] = 0
    => /\ "score" \in DOMAIN result /\ result.score = 5000
       /\ result.risk_category = "MEDIUM"
       /\ "error" \notin DOMAIN result

\* the documented preconditions of compute_payment_history_score, with at
\* least one payment record
PaymentHistoryArgsValid ==
    /\ args.total_accounts >= 1
    /\ \A i \in 1..4 : PaymentCounts[i] >= 0
    /\ Defaults >= 0
    /\ PaymentRecords >= 1

PenaltyPoints == 2 * Late30 + 5 * Late60 + 10 * Late90 + 25 * Defaults

\* clamp(on_time_rate - penalty_points, 0, 100) in exact arithmetic, as a
\* multiple of 1 / PaymentRecords
ExactPaymentScore ==
    Min(100 * PaymentRecords,
        Max(0, 100 * args.on_time_payments - PenaltyPoints * PaymentRecords))

\* C12: for valid arguments with at least one payment record, on_time_rate
\* is on_time / (sum of the payment-record counts) * 100, penalty_points is
\* 2*late30 + 5*late60 + 10*late90plus + 25*defaults, score is
\* clamp(on_time_rate - penalty_points, 0, 100) (both returned rounded to 2
\* decimals) and lies in [0,100], and risk_category is LOW iff that score
\* is >= 80, MEDIUM iff it is in [50, 80), HIGH iff it is < 50; with
\* total_accounts <= 0 the result is an error record.
C12_PaymentHistoryScore ==
    /\ PaymentHistoryReturned /\ PaymentHistoryArgsValid =>
          /\ "error" \notin DOMAIN result
          /\ result.total_payment_records = PaymentRecords
          /\ result.penalty_points = PenaltyPoints
          /\ 2 * Abs(result.on_time_rate * PaymentRecords
                     - 10000 * args.on_time_payments) <= PaymentRecords
          /\ 2 * Abs(result.score * PaymentRecords - 100 * ExactPaymentScore)
                 <= PaymentRecords
          /\ result.score >= 0 /\ result.score <= 10000
          /\ result.risk_category =
                 (IF ExactPaymentScore >= 80 * PaymentRecords THEN "LOW"
                  ELSE IF ExactPaymentScore >= 50 * PaymentRecords THEN "MEDIUM"
                  ELSE "HIGH")
    /\ PaymentHistoryReturned /\ args.total_accounts <= 0 =>
          DOMAIN result = {"error"}

\* 9 payments on time and one 90 days late: rate 90, penalty 10, score
\* exactly 80, LOW
C12_Witness ==
    /\ PaymentHistoryReturned /\ PaymentHistoryArgsValid
    /\ args.on_time_payments = 9 /\ PaymentRecords = 10 /\ Late90 = 1
    /\ Defaults = 0
    /\ result.score = 8000 /\ result.risk_category = "LOW"

---------------------------------------------------------------------------
(* Properties of assess_employment_stability                               *)

EmploymentReturned == pc = "return" /\ tool = "assess_employment_stability"

JobChanges == Arg(args, "job_changes_last_5_years", 0)

EmploymentArgsValid ==
    /\ args.years_in_current_job >= 0
    /\ args.total_work_experience >= 0
    /\ JobChanges >= 0

\* the four factors in exact arithmetic, in thousandths of a point
ExactBase ==
    1000 * (CASE args.employment_type = "salaried"       -> 30
              [] args.employment_type = "business_owner" -> 25
              [] args.employment_type = "self_employed"  -> 20
              [] args.employment_type = "freelancer"     -> 15
              [] args.employment_type = "unemployed"     -> 0
              [] OTHER                                   -> 10)

ExactTenure == Min(6 * args.years_in_current_job, 30000)

ExactExperience == Min(2 * args.total_work_experience, 20000)

ExactStability ==
    1000 * (CASE JobChanges = 0 -> 20 [] JobChanges = 1 -> 15 [] JobChanges = 2 -> 10
              [] JobChanges = 3 -> 5 [] OTHER -> 0)

\* the sum of the four factors of the returned record, in hundredths
ReturnedFactorSum ==
    100 * result.factors.employment_type_score + result.factors.tenure_score
        + result.factors.experience_score + 100 * result.factors.stability_score

\* C13: for non-negative arguments the four returned factors are base (30,
\* 25, 20, 15, 0 by type, 10 for an unrecognized type, never an error),
\* min(6*years_in_current_job, 30), min(2*total_work_experience, 20) and
\* stability (20, 15, 10, 5 for 0..3 changes, else 0), the two middle ones
\* to the two decimals they are returned with; the returned score is the
\* sum of the four returned factors capped at 100; risk_category is LOW
\* iff the returned score is >= 70, MEDIUM iff it is in [40, 70), HIGH iff
\* it is < 40; (salaried, 5, 10, 1) scores 95, LOW.
C13_EmploymentScore ==
    /\ EmploymentReturned /\ EmploymentArgsValid =>
          /\ "error" \notin DOMAIN result
          /\ 1000 * result.factors.employment_type_score = ExactBase
          /\ Abs(10 * result.factors.tenure_score - ExactTenure) <= 5
          /\ Abs(10 * result.factors.experience_score - ExactExperience) <= 5
          /\ 1000 * result.factors.stability_score = ExactStability
          /\ result.score = Min(ReturnedFactorSum, 10000)
          /\ result.risk_category =
                 (IF result.score >= 7000 THEN "LOW"
                  ELSE IF result.score >= 4000 THEN "MEDIUM"
                  ELSE "HIGH")
    /\ /\ EmploymentReturned
       /\ args.employment_type = "salaried"
       /\ args.years_in_current_job = 5000 /\ args.total_work_experience = 10000
       /\ JobChanges = 1
       => result.score = 9500 /\ result.risk_category = "LOW"

\* an unemployed applicant with no tenure, no experience and no job change
\* (given as 0 or left to its default)
UnemployedAllZero ==
    /\ EmploymentReturned
    /\ args.employment_type = "unemployed"
    /\ args.years_in_current_job = 0 /\ args.total_work_experience = 0
    /\ JobChanges = 0

\* C14 as claimed: an unemployed applicant with 0 years in the current
\* job, 0 years of experience and 0 job changes gets the total score 0.
C14_UnemployedScoresZero == UnemployedAllZero => result.score = 0

\* C14 amended: that applicant gets the total score 20: base, tenure and
\* experience are 0 and the stability factor of 0 job changes is 20.
C14_UnemployedScoresTwenty ==
    UnemployedAllZero =>
        /\ result.score = 2000
        /\ result.factors = [employment_type_score |-> 0, tenure_score |-> 0,
                             experience_score |-> 0, stability_score |-> 20]
        /\ result.risk_category = "HIGH"

\* the call with job_changes_last_5_years left to its default
C14_Witness ==
    /\ UnemployedAllZero
    /\ "job_changes_last_5_years" \notin DOMAIN args
    /\ result.score = 2000

\* C15: assess_employment_stability returns an error record without a
\* score when years_in_current_job, total_work_experience or
\* job_changes_last_5_years is negative, compute_payment_history_score
\* does when a payment count or defaults is negative, and every returned
\* employment and payment-history score lies in [0,100].
C15_NegativeArgumentsAreErrors ==
    /\ EmploymentReturned /\ ~EmploymentArgsValid =>
          "error" \in DOMAIN result /\ "score" \notin DOMAIN result
    /\ /\ PaymentHistoryReturned
       /\ (Defaults < 0 \/ \E i \in 1..4 : PaymentCounts[i] < 0)
       => "error" \in DOMAIN result /\ "score" \notin DOMAIN result
    /\ (EmploymentReturned \/ PaymentHistoryReturned) /\ "score" \in DOMAIN result =>
          result.score >= 0 /\ result.score <= 10000

---------------------------------------------------------------------------
(* Properties of assess_credit_score                                       *)

CreditScoreReturned == pc = "return" /\ tool = "assess_credit_score"

\* the band of a score in 300..900: rating and risk category
CreditBand(cs) ==
    CASE cs \in 750..900 -> <<"EXCELLENT", "LOW">>
      [] cs \in 700..749 -> <<"GOOD", "LOW">>
      [] cs \in 650..699 -> <<"FAIR", "MEDIUM">>
      [] cs \in 550..649 -> <<"POOR", "HIGH">>
      [] cs \in 300..549 -> <<"VERY_POOR", "HIGH">>

CreditRecommendation(rating) ==
    CASE rating = "EXCELLENT" ->
            "Eligible for best rates and terms. High approval probability."
      [] rating = "GOOD" -> "Favorable terms available. Standard processing."
      [] rating = "FAIR" ->
            "May qualify with higher interest rates. Additional documentation may help."
      [] rating = "POOR" -> "Limited options. Consider secured loans or co-applicant."
      [] rating = "VERY_POOR" ->
            "High rejection probability. Recommend credit repair before applying."

\* C16: assess_credit_score returns an error record iff credit_score < 300
\* or credit_score > 900; otherwise it echoes the score and returns the one
\* band the score is in: EXCELLENT/LOW for 750..900, GOOD/LOW for 700..749,
\* FAIR/MEDIUM for 650..699, POOR/HIGH for 550..649, VERY_POOR/HIGH for
\* 300..549, with the fixed recommendation of the rating.
C16_CreditScoreBands ==
    CreditScoreReturned =>
        LET cs == args.credit_score
        IN  IF cs < 300 \/ cs > 900
            THEN DOMAIN result = {"error"}
            ELSE /\ "error" \notin DOMAIN result
                 /\ result.score = cs
                 /\ <<result.rating, result.risk_category>> = CreditBand(cs)
                 /\ result.recommendation = CreditRecommendation(result.rating)

\* the lowest EXCELLENT score
C16_Witness ==
    /\ CreditScoreReturned
    /\ args.credit_score = 750
    /\ result.rating = "EXCELLENT" /\ result.risk_category = "LOW"

---------------------------------------------------------------------------
(* One call of compute_emi.  The principal is recorded in hundredths, the  *)
(* annual rate as <<m, k>> for the literal m e-k (<<875, 2>> is 8.75,      *)
(* <<1, 12>> is 1e-12), the tenure as the int it is.                       *)

EmiArgs ==
    [principal            : {-100, 0, 1, 10000, 100000000},
     annual_interest_rate : {<<-1, 0>>, <<0, 0>>, <<1, 2>>, <<10, 0>>, <<12, 0>>,
                             <<1, 12>>, <<1, 13>>},
     tenure_months        : {-1, 0, 1, 3, 12, 120}]

ComputeEmi ==
    /\ pc = "call" /\ tool = "compute_emi"
    /\ result' = compute_emi(Dec(args.principal),
                             Sci(args.annual_interest_rate[1],
                                 args.annual_interest_rate[2]),
                             args.tenure_months)
    /\ pc' = "return"
    /\ UNCHANGED <<tool, args, pow>>

\* the calls of pow that the calls of compute_emi with arguments in S make
\* (tools.py 276-277): those that pass the three guards of 259-266 (a
\* positive principal, a rate that is not negative, a tenure of 1 or more)
\* and whose monthly rate is not 0 (272)
PowInputs(S) ==
    {<<FAdd(FFromInt(1), MonthlyRate(Sci(a.annual_interest_rate[1], a.annual_interest_rate[2]))), a.tenure_months>> :
        a \in {b \in S : /\ b.principal > 0
                          /\ b.annual_interest_rate[1] >= 0
                          /\ b.tenure_months >= 1
                          /\ ~IsZero(MonthlyRate(Sci(b.annual_interest_rate[1], b.annual_interest_rate[2])))}}

InitEmi ==
    /\ pc = "call"
    /\ result = NoResult
    /\ tool = "compute_emi"
    /\ args \in EmiArgs
    /\ pow \in Libms(PowInputs({args}))

NextEmi == ComputeEmi

SpecEmi == InitEmi /\ [][NextEmi]_vars

---------------------------------------------------------------------------
(* Properties of compute_emi                                               *)

EmiReturned == pc = "return" /\ tool = "compute_emi"

EmiArgsInvalid ==
    \/ args.principal <= 0
    \/ args.annual_interest_rate[1] < 0
    \/ args.tenure_months < 1

\* C17: compute_emi returns an error record iff principal <= 0 or
\* annual_interest_rate < 0 or tenure_months < 1; a valid call with rate 0
\* takes the zero-interest branch: emi is principal / tenure_months
\* (returned rounded to 2 decimals), total_payment is the principal,
\* total_interest, interest_to_principal_ratio and monthly_interest_rate
\* are 0, and nothing is divided by zero.
C17_EmiErrorsAndZeroRate ==
    EmiReturned =>
        /\ ("error" \in DOMAIN result) <=> EmiArgsInvalid
        /\ EmiArgsInvalid => DOMAIN result = {"error"}
        /\ ~EmiArgsInvalid /\ args.annual_interest_rate[1] = 0 =>
              /\ result # ZeroDivisionError
              /\ 2 * Abs(result.emi * args.tenure_months - args.principal)
                     <= args.tenure_months
              /\ result.total_payment = args.principal
              /\ result.total_interest = 0
              /\ result.interest_to_principal_ratio = 0
              /\ result.monthly_interest_rate = 0

\* 100.00 at 0 percent over 3 months: emi 33.33
C17_Witness ==
    /\ EmiReturned
    /\ args.principal = 10000 /\ args.annual_interest_rate = <<0, 0>>
    /\ args.tenure_months = 3
    /\ result.emi = 3333 /\ result.total_payment = 10000

\* ratio (in 10^-4) is total_interest / principal (both in hundredths) to
\* within the rounding of ratio and of total_interest
RatioMatches(ratio, total_interest, principal) ==
    IF principal % 10000 = 0
    THEN 2 * Abs(ratio * (principal \div 10000) - total_interest)
             <= principal \div 10000 + 1
    ELSE 2 * Abs(ratio * principal - 10000 * total_interest) <= principal + 10000

\* C18: every valid call of compute_emi returns fields with
\* total_payment = emi * tenure_months to within the rounding of the
\* 2-decimal fields, total_interest = total_payment - principal and
\* interest_to_principal_ratio = total_interest / principal; with a
\* positive rate the interest is positive (so it is not returned as a
\* negative amount); compute_emi(1000000, 10, 120) gives emi 13215.07 and
\* a total_interest that is 585808.40 to within that rounding.
C18_EmiFields ==
    EmiReturned /\ ~EmiArgsInvalid =>
        /\ "emi" \in DOMAIN result
        /\ 2 * Abs(result.total_payment - result.emi * args.tenure_months)
               <= args.tenure_months + 1
        /\ result.total_interest = result.total_payment - args.principal
        /\ RatioMatches(result.interest_to_principal_ratio, result.total_interest,
                        args.principal)
        /\ args.annual_interest_rate[1] > 0 => result.total_interest >= 0
        /\ /\ args.principal = 100000000 /\ args.annual_interest_rate = <<10, 0>>
           /\ args.tenure_months = 120
           => /\ result.emi = 1321507
              /\ 2 * Abs(result.total_interest - 58580840) <= 120 + 1

----------------------------------------------------------------------------
\* C19

DscrReturned == pc = "return" /\ tool = "compute_dscr"

\* The band the claim gives to the quotient of the two amounts of the call
\* (decimal amounts, in hundredths), decided without dividing: for a
\* positive debt service, noi / debt > 1.5 iff 2 * noi > 3 * debt, and
\* noi / debt >= 1 iff noi >= debt.
ExactDscrBand ==
    IF 2 * args.net_operating_income > 3 * args.total_debt_service THEN "LOW"
    ELSE IF args.net_operating_income >= args.total_debt_service THEN "MEDIUM"
    ELSE "HIGH"

\* C19: with a positive total_debt_service compute_dscr never returns an
\* error, whatever the sign of net_operating_income; the category is LOW
\* iff NOI / debt service > 1.5, MEDIUM iff 1.0 <= NOI / debt service <= 1.5
\* (both ends included) and HIGH iff it is below 1.0; excess_income is
\* NOI - debt service, and it is negative exactly when the category is HIGH.
\* The amounts are the decimal amounts the call was made with.
C19_DscrBands ==
    DscrReturned
    => /\ (args.total_debt_service > 0) = ("error" \notin DOMAIN result)
       /\ args.total_debt_service > 0
          => /\ DOMAIN result = {"ratio", "excess_income", "coverage_percentage", "risk_category"}
             /\ result.risk_category = ExactDscrBand
             /\ result.excess_income = args.net_operating_income - args.total_debt_service
             /\ (result.excess_income < 0) = (result.risk_category = "HIGH")

----------------------------------------------------------------------------
\* C20

CollateralReturned == pc = "return" /\ tool = "compute_collateral_coverage_ratio"

\* liquidation_discount of the call in hundredths, 0.2 when omitted
Discount == Arg(args, "liquidation_discount", 20)

CollateralArgsInvalid ==
    \/ args.loan_amount <= 0
    \/ args.collateral_value < 0
    \/ ~(0 <= Discount /\ Discount < 100)

\* collateral_value * (1 - liquidation_discount), in ten-thousandths
ExactNet == args.collateral_value * (100 - Discount)

\* the band the claim gives to net / loan_amount, on the decimal amounts
\* of the call
ExactCollateralBand ==
    IF 2 * ExactNet > 3 * 100 * args.loan_amount THEN "LOW"
    ELSE IF ExactNet >= 100 * args.loan_amount THEN "MEDIUM"
    ELSE "HIGH"

\* C20: compute_collateral_coverage_ratio returns an error record iff
\* loan_amount <= 0, collateral_value < 0 or liquidation_discount is outside
\* [0, 1) (1 rejected, 0 accepted); otherwise net_collateral_value is
\* collateral_value * (1 - liquidation_discount), coverage_ratio is
\* net / loan_amount, the category is LOW above 1.5, MEDIUM from 1.0 to 1.5
\* and HIGH below 1.0, and shortfall is loan_amount - net when HIGH, else 0.
\* The returned numbers are compared to the exact ones to half a unit of
\* their last decimal.
C20_CollateralCoverage ==
    CollateralReturned
    => /\ CollateralArgsInvalid = (DOMAIN result = {"error"})
       /\ ~CollateralArgsInvalid
          => /\ DOMAIN result = {"coverage_ratio", "coverage_percentage", "net_collateral_value", "shortfall", "risk_category"}
             /\ Abs(100 * result.net_collateral_value - ExactNet) <= 50
             /\ 2 * Abs(result.coverage_ratio * args.loan_amount - 100 * ExactNet) <= args.loan_amount
             /\ result.risk_category = ExactCollateralBand
             /\ IF ExactCollateralBand = "HIGH"
                THEN Abs(100 * result.shortfall - (100 * args.loan_amount - ExactNet)) <= 50
                ELSE result.shortfall = 0

----------------------------------------------------------------------------
\* C21

FoirReturned == pc = "return" /\ tool = "compute_foir"

OtherObligations == Arg(args, "other_obligations", 0)

\* existing_emis + proposed_emi + other_obligations, in hundredths
Obligations == args.existing_emis + args.proposed_emi + OtherObligations

\* the sum of the three obligations of the call (decimal amounts) is
\* negative
ObligationsNegative == Obligations < 0

FoirArgsInvalid == args.monthly_income <= 0 \/ ObligationsNegative

\* C21: compute_foir returns an error record iff monthly_income <= 0 or the
\* sum of the three obligations is negative (one negative obligation that
\* the others offset is accepted); otherwise total_obligations is that sum,
\* remaining_income is monthly_income - total_obligations (negative, with no
\* error, when the obligations exceed the income), and remaining_income +
\* total_obligations is monthly_income.
C21_FoirObligations ==
    FoirReturned
    => /\ FoirArgsInvalid = (DOMAIN result = {"error"})
       /\ ~FoirArgsInvalid
          => /\ DOMAIN result = {"ratio", "percentage", "total_obligations", "remaining_income", "risk_category"}
             /\ result.total_obligations = Obligations
             /\ result.remaining_income = args.monthly_income - result.total_obligations
             /\ result.remaining_income + result.total_obligations = args.monthly_income

----------------------------------------------------------------------------
\* C23

\* the call of the docstring example, tools.py 776
DocstringExample ==
    /\ ScorerReturned
    /\ args = [dti_percentage |-> 3500, ltv_percentage |-> 8000, credit_score |-> 720, employment_stability_score |-> 7500, payment_history_score |-> 8500, credit_utilization_percentage |-> 2500, foir_percentage |-> 4000]

\* C23: compute_total_risk_score(35, 80, 720, 75, 85, 25, 40) returns
\* total_score 72.5 and grade 'B', as the example of its docstring says.
C23_DocstringExample ==
    DocstringExample => result.total_score = 7250 /\ result.grade = "B"

---------------------------------------------------------------------------
(* The twelve tools of CREDIT_RISK_TOOLS, called by name.                  *)

\* tools.py 841-854
CREDIT_RISK_TOOLS ==
    {"compute_debt_to_income_ratio", "compute_loan_to_value_ratio",
     "compute_credit_utilization_ratio", "compute_foir", "compute_emi",
     "compute_dscr", "assess_employment_stability",
     "compute_payment_history_score", "assess_credit_score",
     "compute_collateral_coverage_ratio", "classify_risk_category",
     "compute_total_risk_score"}

\* the record tool t returns for the arguments a: each tool is a function of
\* its parameters (it reads no module-level name but the constants of its
\* own body)
Run(t, a) ==
    CASE t = "compute_debt_to_income_ratio" ->
             compute_debt_to_income_ratio(Dec(a.monthly_income), Dec(a.total_monthly_debt))
      [] t = "compute_loan_to_value_ratio" ->
             compute_loan_to_value_ratio(Dec(a.loan_amount), Dec(a.property_value))
      [] t = "compute_credit_utilization_ratio" ->
             compute_credit_utilization_ratio(Dec(a.credit_used), Dec(a.credit_limit))
      [] t = "compute_foir" ->
             compute_foir(Dec(a.monthly_income), Dec(a.existing_emis), Dec(a.proposed_emi), Dec(Arg(a, "other_obligations", 0)))
      [] t = "compute_emi" ->
             compute_emi(Dec(a.principal), Sci(a.annual_interest_rate[1], a.annual_interest_rate[2]), a.tenure_months)
      [] t = "compute_dscr" ->
             compute_dscr(Dec(a.net_operating_income), Dec(a.total_debt_service))
      [] t = "assess_employment_stability" ->
             assess_employment_stability(a.employment_type, Milli(a.years_in_current_job), Milli(a.total_work_experience), Arg(a, "job_changes_last_5_years", 0))
      [] t = "compute_payment_history_score" ->
             compute_payment_history_score(a.total_accounts, a.on_time_payments, Arg(a, "late_payments_30_days", 0), Arg(a, "late_payments_60_days", 0), Arg(a, "late_payments_90_plus_days", 0), Arg(a, "defaults", 0))
      [] t = "assess_credit_score" ->
             assess_credit_score(a.credit_score)
      [] t = "compute_collateral_coverage_ratio" ->
             compute_collateral_coverage_ratio(Dec(a.collateral_value), Dec(a.loan_amount), Dec(Arg(a, "liquidation_discount", 20)))
      [] t = "classify_risk_category" ->
             classify_risk_category(Dec(a.dti_percentage), Dec(a.ltv_percentage), a.credit_score, Dec(a.employment_stability_score), Dec(a.payment_history_score))
      [] t = "compute_total_risk_score" ->
             ScoreOf(a)


----------------------------------------------------------------------------
\* C29

\* the same call without its defaults
WithoutDefaults ==
    compute_payment_history_score(args.total_accounts, args.on_time_payments, Late30, Late60, Late90, 0)

\* C29: the defaults count is not a payment record.  total_payment_records
\* and the denominator of on_time_rate are on_time + late30 + late60 +
\* late90plus only, so a call with those four counts zero and defaults > 0
\* returns the neutral score 50 / MEDIUM with no penalty applied; with at
\* least one record each default lowers the score by 25 before clamping.
C29_DefaultsAreNotRecords ==
    /\ /\ PaymentHistoryReturned
       /\ args.total_accounts >= 1
       /\ \A i \in 1..4 : PaymentCounts[i] = 0
       /\ Defaults > 0
       => /\ "score" \in DOMAIN result /\ result.score = 5000
          /\ result.risk_category = "MEDIUM"
          /\ "penalty_points" \notin DOMAIN result
    /\ PaymentHistoryReturned /\ PaymentHistoryArgsValid
       => /\ result.total_payment_records = PaymentRecords
          /\ result.on_time_rate = WithoutDefaults.on_time_rate
          /\ 2 * Abs(result.on_time_rate * PaymentRecords - 10000 * args.on_time_payments) <= PaymentRecords
          /\ result.penalty_points = WithoutDefaults.penalty_points + 25 * Defaults
          /\ 2 * Abs(result.score * PaymentRecords - 100 * ExactPaymentScore) <= PaymentRecords

\* No payment record and one default: the neutral 50 / MEDIUM.
C29_Witness ==
    /\ PaymentHistoryReturned
    /\ args.total_accounts >= 1 /\ PaymentRecords = 0 /\ Defaults = 1
    /\ \A i \in 1..4 : PaymentCounts[i] = 0
    /\ result.score = 5000 /\ result.risk_category = "MEDIUM"

\* Three payments on time and one default: rate 100, penalty 25, score 75.
C29_WitnessDefaultPenalty ==
    /\ PaymentHistoryReturned /\ PaymentHistoryArgsValid
    /\ args.on_time_payments = 3 /\ PaymentRecords = 3 /\ Defaults = 1
    /\ result.on_time_rate = 10000 /\ result.penalty_points = 25
    /\ result.score = 7500

---------------------------------------------------------------------------
(* The two aggregators called one after the other on the same five factor  *)
(* values: classify_risk_category, then compute_total_risk_score with its  *)
(* default utilization and FOIR.  Under SpecAggregators result collects    *)
(* the two returned records.                                               *)

\* factor values on, next to and well inside the favourable side of the
\* classifier's thresholds, and a credit score of 300
AggregatorArgs ==
    [dti_percentage             : {-1000, 0, 3499, 3500},
     ltv_percentage             : {0, 7999, 8000},
     credit_score               : {300, 699, 700, 750, 900, 1500},
     employment_stability_score : {6999, 7000, 10000, 20000},
     payment_history_score      : {7999, 8000, 10000}]

AggregatorsClassify ==
    /\ pc = "call" /\ tool = "classify_risk_category"
    /\ result' = [classification |->
                      classify_risk_category(
                          Dec(args.dti_percentage), Dec(args.ltv_percentage),
                          args.credit_score, Dec(args.employment_stability_score),
                          Dec(args.payment_history_score))]
    /\ tool' = "compute_total_risk_score"
    /\ UNCHANGED <<pc, args, pow>>

AggregatorsScore ==
    /\ pc = "call" /\ tool = "compute_total_risk_score"
    /\ result' = [classification |-> result.classification, scoring |-> ScoreOf(args)]
    /\ pc' = "return"
    /\ UNCHANGED <<tool, args, pow>>

InitAggregators ==
    /\ pc = "call"
    /\ tool = "classify_risk_category"
    /\ args \in AggregatorArgs
    /\ result = EmptyArgs
    /\ pow = NoPow

NextAggregators == AggregatorsClassify \/ AggregatorsScore

SpecAggregators == InitAggregators /\ [][NextAggregators]_vars

----------------------------------------------------------------------------
\* C30

\* C30: the two aggregators do not contradict each other on a fully
\* favourable applicant: whenever classify_risk_category returns LOW (0 risk
\* points) for five factor values, compute_total_risk_score on the same
\* values with the default utilization and FOIR returns total_score >= 55,
\* that is grade A, B or C, never D or E.
C30_LowIsNeverReviewOrDecline ==
    pc = "return" /\ result.classification.overall_category = "LOW"
    => /\ result.scoring.total_score >= 5500
       /\ result.scoring.grade \in {"A", "B", "C"}

\* The least favourable applicant the classifier still calls LOW: 34.99,
\* 79.99, 700, 70, 80; the scorer gives grade C.
C30_Witness ==
    /\ pc = "return"
    /\ args = [dti_percentage |-> 3499, ltv_percentage |-> 7999, credit_score |-> 700, employment_stability_score |-> 7000, payment_history_score |-> 8000]
    /\ result.classification.overall_category = "LOW"
    /\ result.classification.total_risk_points = 0
    /\ result.scoring.grade = "C"

---------------------------------------------------------------------------
(* A calculator followed by the classifier: the percentage or score the    *)
(* calculator returns is passed to classify_risk_category as the factor it *)
(* measures, next to favourable values of the other four factors.  Under   *)
(* SpecPipeline result collects the two returned records.  A record that   *)
(* carries no such value (an error record) ends the pipeline; the record   *)
(* compute_payment_history_score returns for no payment records carries    *)
(* the score 50 next to its error note, and that score is passed on.       *)

\* the key of the field of the calculator's record that the classifier takes
ReturnedKey(t) ==
    IF t \in {"compute_debt_to_income_ratio", "compute_loan_to_value_ratio"}
    THEN "percentage"
    ELSE "score"

\* the field of the calculator's record that the classifier takes
Returned(t, r) == r[ReturnedKey(t)]

\* the factor of the classifier's individual_assessments that tool t measures
FactorOf(t) ==
    CASE t = "compute_debt_to_income_ratio"  -> "dti"
      [] t = "compute_loan_to_value_ratio"   -> "ltv"
      [] t = "assess_employment_stability"   -> "employment"
      [] t = "compute_payment_history_score" -> "payment_history"

\* classify_risk_category on the value v (a float rounded to 2 decimals, in
\* hundredths) returned by tool t
ClassifyReturned(t, v) ==
    classify_risk_category(
        IF t = "compute_debt_to_income_ratio" THEN Dec(v) ELSE FZero,
        IF t = "compute_loan_to_value_ratio" THEN Dec(v) ELSE FZero,
        750,
        IF t = "assess_employment_stability" THEN Dec(v) ELSE FFromInt(100),
        IF t = "compute_payment_history_score" THEN Dec(v) ELSE FFromInt(100))

PipelineCalculate ==
    /\ pc = "call"
    /\ result' = [calculated |-> Run(tool, args)]
    /\ pc' = "classify"
    /\ UNCHANGED <<tool, args, pow>>

PipelineClassify ==
    /\ pc = "classify"
    /\ ReturnedKey(tool) \in DOMAIN result.calculated
    /\ result' = [calculated     |-> result.calculated,
                  classification |-> ClassifyReturned(tool, Returned(tool, result.calculated))]
    /\ pc' = "return"
    /\ UNCHANGED <<tool, args, pow>>

InitPipeline ==
    /\ pc = "call"
    /\ result = EmptyArgs
    /\ \/ tool = "compute_debt_to_income_ratio" /\ args \in DtiArgs
       \/ tool = "compute_loan_to_value_ratio" /\ args \in LtvArgs
       \/ tool = "assess_employment_stability" /\ args \in EmploymentArgs
       \/ tool = "compute_payment_history_score" /\ args \in PaymentHistoryArgs
    /\ pow = NoPow

NextPipeline == PipelineCalculate \/ PipelineClassify

SpecPipeline == InitPipeline /\ [][NextPipeline]_vars

----------------------------------------------------------------------------
\* C28

\* the arguments of the calculator meet its documented preconditions
PipelineArgsValid ==
    CASE tool = "assess_employment_stability" ->
             EmploymentArgsValid /\ args.employment_type \in EmploymentTypes
      [] tool = "compute_payment_history_score" -> PaymentHistoryArgsValid
      [] OTHER -> RatioArgsValid

\* C28: the calculators and the classifier agree along the pipeline: for
\* every valid input, the percentage returned by
\* compute_debt_to_income_ratio or compute_loan_to_value_ratio, or the score
\* returned by assess_employment_stability or compute_payment_history_score,
\* gets 0, 1 or 2 points from classify_risk_category exactly when the
\* calculator's own risk_category is LOW, MEDIUM or HIGH, also when the
\* unrounded value is within rounding distance of a threshold.
C28_PipelineAgrees ==
    pc = "return" /\ PipelineArgsValid
    => result.classification.individual_assessments[FactorOf(tool)].points
           = PointsOfCategory(result.calculated.risk_category)

---------------------------------------------------------------------------
(* CreditRiskAgentService._parse_result (services.py 179-221)              *)
(*                                                                         *)
(* A message is a record: type, content, and tool_calls when the message   *)
(* class has that attribute (AI messages).  A text is a sequence of        *)
(* characters, "" is <<>>.  A content is a str, [kind |-> "str", text], or *)
(* a list, [kind |-> "list", blocks]; a block of a list is a dict          *)
(* ([kind |-> "dict", type] with or without text) or a str.                *)

\* bool(content), services.py 199
Truthy(content) ==
    IF content.kind = "str" THEN content.text # <<>> ELSE content.blocks # <<>>

\* services.py 208-211: what one block adds to text_parts
BlockText(block) ==
    IF block.kind = "dict" /\ block.type = "text" THEN Arg(block, "text", <<>>)
    ELSE IF block.kind = "str" THEN block.text
    ELSE <<>>

\* services.py 206-212: ''.join(text_parts)
RECURSIVE JoinBlocks(_)
JoinBlocks(blocks) ==
    IF blocks = <<>> THEN <<>>
    ELSE BlockText(Head(blocks)) \o JoinBlocks(Tail(blocks))

\* services.py 201-214
ContentText(content) ==
    IF content.kind = "str" THEN content.text
    ELSE JoinBlocks(content.blocks)

\* services.py 198: [tc['name'] for tc in message.tool_calls]
RECURSIVE CallNames(_)
CallNames(tool_calls) ==
    IF tool_calls = <<>> THEN <<>>
    ELSE <<Head(tool_calls).name>> \o CallNames(Tail(tool_calls))

\* services.py 195-214: the loop, from the values of final_response and
\* tool_calls_made before the first of the messages
RECURSIVE ParseLoop(_, _, _)
ParseLoop(messages, final_response, tool_calls_made) ==
    IF messages = <<>>
    THEN [final_response |-> final_response, tool_calls_made |-> tool_calls_made]
    ELSE LET message == Head(messages)
         IN  IF "content" \notin DOMAIN message
             THEN ParseLoop(Tail(messages), final_response, tool_calls_made)
             ELSE IF "tool_calls" \in DOMAIN message /\ message.tool_calls # <<>>
             THEN ParseLoop(Tail(messages), final_response, tool_calls_made \o CallNames(message.tool_calls))
             ELSE IF message.type = "ai" /\ Truthy(message.content)
             THEN ParseLoop(Tail(messages), ContentText(message.content), tool_calls_made)
             ELSE ParseLoop(Tail(messages), final_response, tool_calls_made)

ListRange(l) == {l[i] : i \in DOMAIN l}

\* list(l) without the set(): the names as they were collected
ListAsIs(l) == {l}

\* services.py 219: list(set(l)), the distinct elements of l in the order
\* the set happens to iterate them: any order
ListOfSet(l) ==
    {o \in [1..Cardinality(ListRange(l)) -> ListRange(l)] : ListRange(o) = ListRange(l)}

\* services.py 216-221, for the list tools_used that list(set(.)) produced
ParseRecord(messages, loop, tools_used) ==
    [status        |-> "success",
     response      |-> loop.final_response,
     tools_used    |-> tools_used,
     message_count |-> Len(messages)]

\* the records _parse_result can return for the messages
parse_result(messages) ==
    {ParseRecord(messages, loop, tools_used) :
        loop \in {ParseLoop(messages, <<>>, <<>>)},
        tools_used \in ListOfSet(ParseLoop(messages, <<>>, <<>>).tool_calls_made)}

Str(text) == [kind |-> "str", text |-> text]

\* the messages of an agent run: the user's, AI messages that call tools
\* (with and without text), tool results, and AI messages without tool
\* calls whose content is a str, empty, or a list of blocks
AgentMessages ==
    {[type |-> "human", content |-> Str(<<"q">>)],
     [type |-> "tool", content |-> Str(<<"r">>)],
     [type |-> "ai", content |-> Str(<<>>), tool_calls |-> <<[name |-> "compute_emi"]>>],
     [type |-> "ai", content |-> Str(<<"t">>), tool_calls |-> <<[name |-> "compute_emi"], [name |-> "compute_dscr"], [name |-> "compute_emi"]>>],
     [type |-> "ai", content |-> Str(<<"a">>), tool_calls |-> <<>>],
     [type |-> "ai", content |-> Str(<<>>), tool_calls |-> <<>>],
     [type |-> "ai", tool_calls |-> <<>>, content |->
         [kind |-> "list", blocks |-> <<[kind |-> "dict", type |-> "text", text |-> <<"b">>], [kind |-> "dict", type |-> "image"], [kind |-> "dict", type |-> "text", text |-> <<"c">>]>>]],
     [type |-> "ai", tool_calls |-> <<>>, content |->
         [kind |-> "list", blocks |-> <<[kind |-> "dict", type |-> "text"], [kind |-> "str", text |-> <<"d">>]>>]],
     [type |-> "ai", tool_calls |-> <<>>, content |-> [kind |-> "list", blocks |-> <<[kind |-> "dict", type |-> "image"]>>]],
     [type |-> "ai", tool_calls |-> <<>>, content |-> [kind |-> "list", blocks |-> <<>>]]}

\* how many messages an agent run has at most
MaxMessages == 3

RECURSIVE SeqsUpTo(_, _)
SeqsUpTo(S, n) ==
    IF n = 0 THEN {<<>>}
    ELSE SeqsUpTo(S, n - 1) \cup {Append(q, x) : q \in SeqsUpTo(S, n - 1), x \in S}

ParseResult ==
    /\ pc = "call" /\ tool = "_parse_result"
    /\ result' \in parse_result(args.messages)
    /\ pc' = "return"
    /\ UNCHANGED <<tool, args, pow>>

InitParse ==
    /\ pc = "call"
    /\ tool = "_parse_result"
    /\ args \in [messages : SeqsUpTo(AgentMessages, MaxMessages)]
    /\ result = NoResult
    /\ pow = NoPow

NextParse == ParseResult

SpecParse == InitParse /\ [][NextParse]_vars

----------------------------------------------------------------------------
\* C27

HasToolCalls(message) == "tool_calls" \in DOMAIN message /\ message.tool_calls # <<>>

\* the positions of the AI messages with non-empty content and no tool calls
AnswerPositions ==
    {i \in DOMAIN args.messages :
        /\ args.messages[i].type = "ai"
        /\ ~HasToolCalls(args.messages[i])
        /\ IF args.messages[i].content.kind = "str"
           THEN Len(args.messages[i].content.text) > 0
           ELSE Len(args.messages[i].content.blocks) > 0}

\* the texts of the text blocks (and plain strings) of a list, in order
TextBlocks(blocks) ==
    SelectSeq(blocks, LAMBDA b : b.kind = "str" \/ (b.type = "text" /\ "text" \in DOMAIN b))

RECURSIVE Concat(_)
Concat(bs) == IF bs = <<>> THEN <<>> ELSE Concat(SubSeq(bs, 1, Len(bs) - 1)) \o bs[Len(bs)].text

AnswerText(message) ==
    IF message.content.kind = "str" THEN message.content.text
    ELSE Concat(TextBlocks(message.content.blocks))

\* every tool name called by any message
NamesCalled ==
    UNION {{m.tool_calls[k].name : k \in DOMAIN m.tool_calls} :
               m \in {args.messages[j] : j \in {i \in DOMAIN args.messages : HasToolCalls(args.messages[i])}}}

ParseReturned == pc = "return" /\ tool = "_parse_result"

\* C27: for any sequence of agent messages _parse_result returns status
\* 'success', message_count equal to the number of messages, tools_used
\* holding every tool name called by any message exactly once and nothing
\* else, and response equal to the text of the last AI message that has
\* non-empty content and no tool calls (the concatenation of its text
\* blocks when the content is a list), or the empty string when there is no
\* such message; a message that carries tool calls never overwrites
\* response.
C27_ParseResult ==
    ParseReturned
    => /\ result.status = "success"
       /\ result.message_count = Len(args.messages)
       /\ ListRange(result.tools_used) = NamesCalled
       /\ Len(result.tools_used) = Cardinality(NamesCalled)
       /\ result.response =
              (IF AnswerPositions = {} THEN <<>>
               ELSE AnswerText(args.messages[CHOOSE i \in AnswerPositions : \A j \in AnswerPositions : j <= i]))

\* An answer in two text blocks, then a message that calls compute_emi
\* twice and compute_dscr once and carries text of its own: the answer
\* stays, and each tool is listed once.
C27_Witness ==
    /\ ParseReturned
    /\ Len(args.messages) = 3
    /\ args.messages[2].content.kind = "list"
    /\ HasToolCalls(args.messages[3]) /\ args.messages[3].content = Str(<<"t">>)
    /\ result.response = <<"b", "c">>
    /\ Len(result.tools_used) = 2
    /\ ListRange(result.tools_used) = {"compute_emi", "compute_dscr"}

---------------------------------------------------------------------------
(* The endpoints /analyze and /analyze/stream (main.py 224-299) on top of  *)
(* the agent service (services.py 66-137).                                 *)
(*                                                                         *)
(* Under SpecEndpoints tool is the endpoint of the request and args is     *)
(* what the agent does for it: args.stream is the sequence of items the    *)
(* agent's stream produces, each a (token, metadata) pair                  *)
(* [node, blocks] (blocks absent when the token has no content_blocks) or  *)
(* [raise |-> E], the exception the agent raises at that point; for        *)
(* /analyze args.outcome is "ok" or the exception agent.invoke raises.     *)
(* result is the HTTP response so far: its status, the events of its body, *)
(* how many items of the stream were consumed, how many events of the last *)
(* consumed item were sent, and the exception that left the application    *)
(* unhandled, if any.  generate() is suspended at each of its yields; a    *)
(* step is the server pulling the body once more, which runs generate() up *)
(* to its next yield, to the exception of the agent, or to its end.        *)

\* the event f"data: {chunk}\n\n"
Event(chunk) == [data |-> chunk]

\* main.py 286
Done == Event("[DONE]")

\* services.py 131-137: the texts one token yields
RECURSIVE TextsOf(_)
TextsOf(blocks) ==
    IF blocks = <<>> THEN <<>>
    ELSE LET block == Head(blocks)
         IN  (IF block.kind = "dict" /\ block.type = "text" /\ Arg(block, "text", "") # ""
              THEN <<Event(block.text)>> ELSE <<>>)
             \o TextsOf(Tail(blocks))

\* TokenEvents without the test of the node at services.py 127
TokenEventsAnyNode(item) ==
    IF "blocks" \notin DOMAIN item THEN <<>>
    ELSE TextsOf(item.blocks)

\* services.py 122-137 and main.py 283-285: the events one item of the
\* agent's stream adds to the body
TokenEvents(item) ==
    IF item.node # "model" THEN <<>>
    ELSE IF "blocks" \notin DOMAIN item THEN <<>>
    ELSE TextsOf(item.blocks)

\* tokens: text from the model node, a model token with an empty text, a
\* tool-call chunk and two texts, text from the tools node, and a model
\* token without content_blocks
AgentTokens ==
    {[node |-> "model", blocks |-> <<[kind |-> "dict", type |-> "text", text |-> "a"]>>],
     [node |-> "model", blocks |-> <<[kind |-> "dict", type |-> "text", text |-> ""], [kind |-> "dict", type |-> "tool_call_chunk"], [kind |-> "dict", type |-> "text", text |-> "b"], [kind |-> "dict", type |-> "text", text |-> "c"]>>],
     [node |-> "tools", blocks |-> <<[kind |-> "dict", type |-> "text", text |-> "x"]>>],
     [node |-> "model"]}

AgentErrors == {"ValueError", "RuntimeError"}

\* how many items the agent's stream has at most
MaxTokens == 3

\* the agent's streams: tokens, ending normally or with an exception
AgentStreams ==
    SeqsUpTo(AgentTokens, MaxTokens)
    \cup {Append(q, [raise |-> e]) : q \in SeqsUpTo(AgentTokens, MaxTokens - 1), e \in AgentErrors}

\* main.py 283-286 and services.py 122-137: generate() resumed after i items
\* of the agent's stream were taken and k events of item i were sent: it
\* sends the next event of item i, or takes the items that follow until one
\* has an event or is the exception, or the stream ends
RECURSIVE Resume(_, _, _)
Resume(stream, i, k) ==
    IF i >= 1 /\ k < Len(TokenEvents(stream[i]))
    THEN [kind |-> "event", consumed |-> i, sent |-> k + 1, event |-> TokenEvents(stream[i])[k + 1]]
    ELSE IF i = Len(stream) THEN [kind |-> "done", consumed |-> i]
    ELSE IF "raise" \in DOMAIN stream[i + 1]
    THEN [kind |-> "raise", consumed |-> i + 1, raise |-> stream[i + 1].raise]
    ELSE Resume(stream, i + 1, 0)

\* main.py 250-267
Analyze ==
    /\ pc = "request" /\ tool = "/analyze"
    /\ result' = IF args.outcome = "ok" THEN [status |-> 200, unhandled |-> "none"]
                 ELSE IF args.outcome = "ValueError" THEN [status |-> 400, unhandled |-> "none"]
                 ELSE [status |-> 500, detail |-> "Error analyzing applicant: ...", unhandled |-> "none"]
    /\ pc' = "closed"
    /\ UNCHANGED <<tool, args, pow>>

\* main.py 281-291: the endpoint defines generate() and returns the
\* StreamingResponse; nothing of the agent has run yet, and the response
\* starts with status 200
StreamStart ==
    /\ pc = "request" /\ tool = "/analyze/stream"
    /\ result' = [status |-> 200, body |-> <<>>, consumed |-> 0, sent |-> 0, unhandled |-> "none"]
    /\ pc' = "streaming"
    /\ UNCHANGED <<tool, args, pow>>

\* main.py 283-285: generate() yields the event of the next text that the
\* agent service yields, and is suspended there
StreamToken ==
    /\ pc = "streaming"
    /\ Resume(args.stream, result.consumed, result.sent).kind = "event"
    /\ result' = [result EXCEPT !.body = Append(@, Resume(args.stream, result.consumed, result.sent).event),
                                !.consumed = Resume(args.stream, result.consumed, result.sent).consumed,
                                !.sent = Resume(args.stream, result.consumed, result.sent).sent]
    /\ UNCHANGED <<pc, tool, args, pow>>

\* main.py 283: the agent raises while generate() is being iterated, after
\* the endpoint function has returned: the exception leaves the
\* application, and the response that has started is cut off
StreamRaise ==
    /\ pc = "streaming"
    /\ Resume(args.stream, result.consumed, result.sent).kind = "raise"
    /\ result' = [result EXCEPT !.unhandled = Resume(args.stream, result.consumed, result.sent).raise,
                                !.consumed = Resume(args.stream, result.consumed, result.sent).consumed,
                                !.sent = 0]
    /\ pc' = "aborted"
    /\ UNCHANGED <<tool, args, pow>>

\* main.py 286: the agent's stream is exhausted
StreamDone ==
    /\ pc = "streaming"
    /\ Resume(args.stream, result.consumed, result.sent).kind = "done"
    /\ result' = [result EXCEPT !.body = Append(@, Done),
                                !.consumed = Len(args.stream),
                                !.sent = 0]
    /\ pc' = "closed"
    /\ UNCHANGED <<tool, args, pow>>

InitEndpoints ==
    /\ pc = "request"
    /\ result = NoResult
    /\ \/ tool = "/analyze" /\ args \in [outcome : {"ok"} \cup AgentErrors]
       \/ tool = "/analyze/stream" /\ args \in [stream : AgentStreams]
    /\ pow = NoPow

NextEndpoints == Analyze \/ StreamStart \/ StreamToken \/ StreamRaise \/ StreamDone

SpecEndpoints == InitEndpoints /\ [][NextEndpoints]_vars

----------------------------------------------------------------------------
\* C24

\* the texts of the non-empty text blocks of the model-node tokens among
\* the first n items of the agent's stream, in order, one event each
RECURSIVE ExpectedEvents(_)
ExpectedEvents(n) ==
    IF n = 0 THEN <<>>
    ELSE LET item == args.stream[n]
             texts == IF item.node = "model" /\ "blocks" \in DOMAIN item
                      THEN SelectSeq(item.blocks, LAMBDA b : b.type = "text" /\ b.text # "")
                      ELSE <<>>
         IN  ExpectedEvents(n - 1) \o [i \in DOMAIN texts |-> [data |-> texts[i].text]]

Streaming == tool = "/analyze/stream" /\ pc # "request"

\* the expected events of the items before the last consumed one, and the
\* first result.sent of that one
ExpectedSoFar ==
    IF result.consumed = 0 THEN <<>>
    ELSE SubSeq(ExpectedEvents(result.consumed), 1,
                Min(Len(ExpectedEvents(result.consumed - 1)) + result.sent,
                    Len(ExpectedEvents(result.consumed))))

\* C24: the body of /analyze/stream is, for each token the agent streams
\* from the 'model' node, in order, one event 'data: <text>' per non-empty
\* text block of that token (tokens of other nodes, non-text blocks and
\* empty texts give no event), followed by exactly one final
\* 'data: [DONE]'; [DONE] is emitted once, only after the agent's stream is
\* exhausted, and nothing follows it.  While the response is being sent,
\* its body is those events up to the one generate() is suspended at.
C24_StreamBody ==
    Streaming
    => /\ pc = "closed"
          => result.body = ExpectedEvents(Len(args.stream)) \o <<[data |-> "[DONE]"]>>
       /\ pc = "streaming" => result.body = ExpectedSoFar
       /\ \A i \in DOMAIN result.body :
              result.body[i].data = "[DONE]"
              => i = Len(result.body) /\ pc = "closed" /\ result.consumed = Len(args.stream)

\* A stream of a tools-node token, a model token with an empty text, a
\* tool-call chunk and the texts b and c, and the model text a: the body is
\* b, c, a, [DONE].
C24_Witness ==
    /\ Streaming /\ pc = "closed"
    /\ Len(args.stream) = 3
    /\ args.stream[1].node = "tools"
    /\ result.body = <<[data |-> "b"], [data |-> "c"], [data |-> "a"], [data |-> "[DONE]"]>>

----------------------------------------------------------------------------
\* C25

\* C25: on /analyze/stream, as on /analyze, a ValueError of the agent
\* service is answered with HTTP 400 and any other exception with HTTP 500
\* 'Error analyzing applicant: ...', also when it is raised while chunks
\* are being generated: no failure of the agent leaves the endpoint
\* unhandled after a 200 response has started.
C25_StreamErrorsAreAnswered ==
    /\ tool = "/analyze" /\ pc = "closed"
       => /\ result.unhandled = "none"
          /\ result.status = (CASE args.outcome = "ok" -> 200
                                [] args.outcome = "ValueError" -> 400
                                [] OTHER -> 500)
    /\ tool = "/analyze/stream" /\ pc \in {"closed", "aborted"}
       => /\ result.unhandled = "none"
          /\ \A i \in DOMAIN args.stream :
                 "raise" \in DOMAIN args.stream[i]
                 => result.status = (IF args.stream[i].raise = "ValueError" THEN 400 ELSE 500)

---------------------------------------------------------------------------
(* The agent service as a cached dependency (main.py 41-88, 146-162).      *)
(*                                                                         *)
(* get_agent_service is a plain def, which the framework runs in a thread  *)
(* pool, so several requests can be inside it at once.  lru_cache looks    *)
(* the key up, and on a miss calls the wrapped function without holding a  *)
(* lock: a second caller that misses before the first call has returned    *)
(* calls it again, and each caller gets the instance its own call made;    *)
(* the cache keeps the first one stored.                                   *)
(*                                                                         *)
(* Under SpecService args is the settings, pc gives the position of the    *)
(* application ("running" / "stopped") and of each request, and result is  *)
(* [cache, constructed, received, starts]: the instance the cache of     *)
(* get_agent_service_cached holds (0: none), how often the constructor  *)
(* has run, and what each request got (an instance, 503, or 0: nothing     *)
(* yet).  Instances are numbered in the order they are constructed.        *)

Requests == {1, 2, 3}

\* how many requests are served between one startup and the next shutdown
\* is fixed by Requests; how many times the application starts
MaxStarts == 2

\* main.py 79-88, up to the lookup in the cache of line 85
Resolve(r) ==
    /\ pc.app = "running" /\ pc.req[r] = "start"
    /\ IF args.gemini_api_key = ""
       THEN /\ pc' = [pc EXCEPT !.req[r] = "done"]
            /\ result' = [result EXCEPT !.received[r] = 503]
       ELSE IF result.cache # 0
       THEN /\ pc' = [pc EXCEPT !.req[r] = "done"]
            /\ result' = [result EXCEPT !.received[r] = result.cache]
       ELSE /\ pc' = [pc EXCEPT !.req[r] = "constructing"]
            /\ UNCHANGED result
    /\ UNCHANGED <<tool, args, pow>>

\* main.py 64-67: the constructor call of a caller that missed returns;
\* the new instance is stored unless the key has been stored meanwhile
Construct(r) ==
    /\ pc.req[r] = "constructing"
    /\ result' = [cache |-> IF result.cache = 0 THEN result.constructed + 1 ELSE result.cache,
                  constructed |-> result.constructed + 1,
                  received |-> [result.received EXCEPT ![r] = result.constructed + 1],
                  starts |-> result.starts]
    /\ pc' = [pc EXCEPT !.req[r] = "done"]
    /\ UNCHANGED <<tool, args, pow>>

\* main.py 159-161, once no request is in flight
Shutdown ==
    /\ pc.app = "running"
    /\ \A r \in Requests : pc.req[r] # "constructing"
    /\ result' = [result EXCEPT !.cache = 0]
    /\ pc' = [pc EXCEPT !.app = "stopped"]
    /\ UNCHANGED <<tool, args, pow>>

\* main.py 147-157: the application starts again in the same process, and
\* serves new requests
Startup ==
    /\ pc.app = "stopped"
    /\ result.starts < MaxStarts
    /\ pc' = [app |-> "running", req |-> [r \in Requests |-> "start"]]
    /\ result' = [result EXCEPT !.starts = @ + 1, !.received = [r \in Requests |-> 0]]
    /\ UNCHANGED <<tool, args, pow>>

InitService ==
    /\ tool = "get_agent_service"
    /\ args \in [gemini_api_key : {"", "key"}, gemini_model_name : {"gemini-2.0-flash"}]
    /\ pc = [app |-> "running", req |-> [r \in Requests |-> "start"]]
    /\ result = [cache |-> 0, constructed |-> 0, received |-> [r \in Requests |-> 0], starts |-> 1]
    /\ pow = NoPow

NextService ==
    \/ \E r \in Requests : Resolve(r) \/ Construct(r)
    \/ Shutdown
    \/ Startup

SpecService == InitService /\ [][NextService]_vars

----------------------------------------------------------------------------
\* C26

\* C26: between startup and shutdown, with unchanged settings, every
\* request that resolves get_agent_service receives the same
\* CreditRiskAgentService instance and the constructor runs at most once
\* per (api_key, model_name), also when several requests resolve the
\* dependency at the same time; an empty API key yields HTTP 503 without
\* constructing a service; shutdown clears the caches, so that the next
\* resolution constructs a fresh instance.
C26_OneServicePerSettings ==
    /\ \A r, q \in Requests :
           result.received[r] # 0 /\ result.received[q] # 0
           => result.received[r] = result.received[q]
    /\ result.constructed <= result.starts
    /\ args.gemini_api_key = ""
       => /\ result.constructed = 0
          /\ \A r \in Requests : result.received[r] \in {0, 503}
    /\ pc.app = "stopped" => result.cache = 0
    /\ \A r \in Requests :
           result.received[r] \notin {0, 503} => result.received[r] > result.starts - 1

====
